---------------------------- MODULE Spec2Model ----------------------------
(*
  Model of the Asyncify bridge of zeroperl-ts (src/wasi/asyncify.ts).

  The host is JavaScript: single-threaded, run to completion.  One action of
  this model is one synchronous segment of host code: from the moment a host
  function is entered or resumed after an `await` up to its next `await`,
  return or throw.  The guest (a WebAssembly module instrumented by
  binaryen's Asyncify pass) runs synchronously inside such a segment.

  Guest side, modelled from the interface the bridge consumes
  (AsyncifyExports) and from binaryen's documented behaviour:
    - asyncify_get_state returns the guest state (0 None, 1 Unwinding,
      2 Rewinding); the four control exports set it;
    - an instrumented function that sees state Unwinding after a call pushes
      its frame (call index and locals) on the data stack at DATA_ADDR and
      returns; entered in state Rewinding it pops the top frame and jumps to
      the saved call;
    - a function that was not instrumented ignores the state.
*)
EXTENDS Integers, Sequences, FiniteSets, TLC

\* ------------------------------------------------------------------ bounds
\* number of wrapped-export calls the host makes
MaxCalls == 2

\* --------------------------------------------------------------- constants
DATA_ADDR == 16

None == 0
Unwinding == 1
Rewinding == 2

DEFAULT_UNWRAPPED_EXPORTS == {"free", "malloc"}

\* caller-supplied exclusion lists that are tried (ZeroPerl.create passes
\* SYNC_EXPORTS; the option is optional)
SYNC_EXPORTS == {"zeroperl_new_int", "zeroperl_flush"}
OptionChoices == {{}, SYNC_EXPORTS}

\* Arguments of export calls and values host functions resolve to.  The
\* bridge never inspects them; two distinct values are enough to tell one
\* call's data from another's.
Vals == {0, 1}

\* ----------------------------------------------------- host values (JS)
Undef == [k |-> "undef", n |-> 0]
Num(x) == [k |-> "num", n |-> x]
PromiseRef(p) == [k |-> "promise", n |-> p]

\* isPromise(obj)
isPromise(v) == v.k = "promise"

\* what the guest receives when a host value is returned into an i32
ToInt32(v) == IF v.k = "num" THEN v.n ELSE 0

\* ------------------------------------------------- the guest module
\* Export table of the instantiated module: name -> object.  Objects 1..6
\* are guest functions with a body, 7..11 the asyncify control functions,
\* 12 and 13 are not functions.  One function is exported under two names
\* (the engine hands out one function object per function).
ExportNames ==
  << "zeroperl_eval", "eval", "asyncjmp_rt_start",
     "zeroperl_new_int", "malloc", "free", "zeroperl_flush",
     "asyncify_get_state", "asyncify_start_unwind", "asyncify_stop_unwind",
     "asyncify_start_rewind", "asyncify_stop_rewind",
     "memory", "__stack_pointer" >>

RawExports ==
  [ zeroperl_eval |-> 1, eval |-> 1, asyncjmp_rt_start |-> 2,
    zeroperl_new_int |-> 3, malloc |-> 4, free |-> 5, zeroperl_flush |-> 6,
    asyncify_get_state |-> 7, asyncify_start_unwind |-> 8,
    asyncify_stop_unwind |-> 9, asyncify_start_rewind |-> 10,
    asyncify_stop_rewind |-> 11, memory |-> 12, __stack_pointer |-> 13 ]

\* the exports the host program calls
HostCallNames ==
  { "zeroperl_eval", "asyncjmp_rt_start", "zeroperl_new_int", "malloc",
    "zeroperl_flush" }

\* the object that is the raw export table itself, and the first identity
\* given to an object created later
RawExportsObj == Len(ExportNames) + 1
FirstFreshObj == RawExportsObj + 1

GuestFns == 1..6
ControlFns == 7..11
RawFunctionObjs == GuestFns \cup ControlFns

\* Imports the guest calls.  call_host_function is the async host-function
\* dispatch; the others return synchronously.
ImportDefs ==
  [ call_host_function |-> [isFn |-> TRUE, async |-> TRUE, ret |-> 0],
    fd_write |-> [isFn |-> TRUE, async |-> FALSE, ret |-> 1],
    malloc |-> [isFn |-> TRUE, async |-> FALSE, ret |-> 2],
    memory |-> [isFn |-> FALSE, async |-> FALSE, ret |-> 0] ]

\* Guest function bodies: the imports a function calls, in order.
Body ==
  [ f \in GuestFns |->
      CASE f = 1 -> << "call_host_function", "fd_write", "call_host_function" >>
        [] f = 2 -> << "call_host_function", "malloc" >>
        [] f = 6 -> << "fd_write" >>
        [] OTHER -> << >> ]

\* The Asyncify pass instruments the functions that can reach an import that
\* suspends; asyncjmp_rt_start is a function it left out although it can.
\* The allocator and the value constructors call no import at all;
\* zeroperl_flush calls one that returns synchronously.
Instrumented == [ f \in GuestFns |-> f = 1 ]

\* how a guest function folds an import's return value into its local
Combine(acc, r) == (2 * acc + r + 1) % 5

\* ---------------------------------------------------------------- state
VARIABLES
  unwrappedExports,   \* Asyncify.unwrappedExports
  exports,            \* Asyncify.exports: 0 (null) or the wrapped table object
  descriptor,         \* the two 32-bit words written at DATA_ADDR by init
  value,              \* Asyncify.value, the pending result slot
  WRAPPED_EXPORTS,    \* module-level WeakMap: object -> object
  wrappers,           \* wrapper object -> the function it closes over
  tables,             \* export-table object -> [name -> object]
  nextObj,            \* next fresh object identity
  state,              \* guest: asyncify state
  data,               \* guest: stack of saved frames in the control block
  promises,           \* host: promises created by async imports
  calls,              \* host: the wrapped-export calls that are suspended
  ncalls,             \* host: number of wrapped-export calls made so far
  fin,                \* host: the wrapped-export call that ended in the last step
  log,                \* what the imports and control exports did in the last step
  last                \* the last host-level operation and its outcome

vars == << unwrappedExports, exports, descriptor, value, WRAPPED_EXPORTS, wrappers, tables,
           nextObj, state, data, promises, calls, ncalls, fin, log, last >>

\* The ZeroPerl layer above the bridge (the value proxies, the host function
\* table, the conversions) and the guest interpreter's values behind it.
VARIABLES
  api,                \* which ZeroPerl API is in use: "sync" or "async"
  isDisposed,         \* ZeroPerl.isDisposed
  hostFunctions,      \* ZeroPerl.hostFunctions: id -> callback
  nextFuncId,         \* ZeroPerl.nextFuncId
  proxies,            \* the PerlValue / PerlArray / PerlHash objects created
  heap,               \* guest: handle -> the interpreter value it names
  perlVars,           \* guest: the scalar variables, name -> handle
  hostError,          \* guest: the message set by zeroperl_set_host_error
  xlog,               \* the guest exports called in the last step, in order
  hlast,              \* the last operation on the ZeroPerl layer and its outcome
  runs,               \* the eval / runFile / call / reset calls at their await
  lastError           \* guest: the text of $@, read by zeroperl_last_error

hostvars == << api, isDisposed, hostFunctions, nextFuncId, proxies, heap,
               perlVars, hostError, xlog, hlast, runs, lastError >>

allvars == << vars, hostvars >>

\* the ZeroPerl layer while only the bridge is exercised
HostIdle ==
  /\ api = "sync"
  /\ isDisposed = FALSE
  /\ hostFunctions = << >>
  /\ nextFuncId = 1
  /\ proxies = << >>
  /\ heap = << >>
  /\ perlVars = [ks |-> << >>, xs |-> << >>]
  /\ hostError = ""
  /\ xlog = << >>
  /\ hlast = << >>
  /\ runs = << >>
  /\ lastError = ""


\* ------------------------------------------------ wrapping of exports
\* typeof value === "function"
IsFunction(obj, wr) == obj \in RawFunctionObjs \/ obj \in DOMAIN wr

\* variant: the prefix test never matches
StartsWithAsyncify_Never(name) == FALSE

\* exportName.startsWith("asyncify_")
StartsWithAsyncify(name) ==
  name \in { "asyncify_get_state", "asyncify_start_unwind", "asyncify_stop_unwind",
             "asyncify_start_rewind", "asyncify_stop_rewind" }

\* variant: the defaults are left out of the set
AsyncifyConstructor_NoDefaults(options) == options

\* new Set([...DEFAULT_UNWRAPPED_EXPORTS, ...(options?.unwrappedExports ?? [])])
AsyncifyConstructor(options) == DEFAULT_UNWRAPPED_EXPORTS \cup options

\* variant: the lookup always misses
CacheGet_Miss(cache, key) == 0

\* WRAPPED_EXPORTS.get(key); 0 stands for undefined
CacheGet(cache, key) == IF key \in DOMAIN cache THEN cache[key] ELSE 0

\* wrapExportFn(fn) on the heap h = [cache, wrappers, next]: the wrapper
\* returned and the heap afterwards
wrapExportFn(fn, h) ==
  LET newExport == CacheGet(h.cache, fn) IN
  IF newExport # 0
  THEN [out |-> newExport, h |-> h]
  ELSE [out |-> h.next,
        h |-> [cache |-> (fn :> h.next) @@ h.cache,
               wrappers |-> (h.next :> fn) @@ h.wrappers,
               next |-> h.next + 1]]

\* variant: the exclusion set is not consulted
ShouldWrapExport_IgnoreList(name, obj, wr, unwrapped) ==
  /\ IsFunction(obj, wr)
  /\ ~StartsWithAsyncify(name)

\* the condition under which wrapExports wraps an export
ShouldWrapExport(name, obj, wr, unwrapped) ==
  /\ IsFunction(obj, wr)
  /\ ~StartsWithAsyncify(name)
  /\ name \notin unwrapped

\* the for-in loop of wrapExports from the i-th name on, over the names the
\* module exports
RECURSIVE WrapExportsLoop(_, _, _, _, _)
WrapExportsLoop(i, raw, unwrapped, h, tbl) ==
  IF i > Len(ExportNames)
  THEN [h |-> h, tbl |-> tbl]
  ELSE IF ExportNames[i] \notin DOMAIN raw
  THEN WrapExportsLoop(i + 1, raw, unwrapped, h, tbl)
  ELSE LET name == ExportNames[i]
           obj == raw[name]
           r == IF ShouldWrapExport(name, obj, h.wrappers, unwrapped)
                THEN wrapExportFn(obj, h)
                ELSE [out |-> obj, h |-> h]
       IN WrapExportsLoop(i + 1, raw, unwrapped, r.h, (name :> r.out) @@ tbl)

\* wrapExports(exports): a fresh table object, filled by the loop, cached
\* under the raw table object
wrapExports(rawObj, raw, unwrapped, h) ==
  LET newExports == h.next
      r == WrapExportsLoop(1, raw, unwrapped,
                           [h EXCEPT !.next = h.next + 1], << >>)
  IN [out |-> newExports,
      tbl |-> r.tbl,
      h |-> [r.h EXCEPT !.cache = (rawObj :> newExports) @@ r.h.cache]]

\* Instance.prototype.exports getter: WRAPPED_EXPORTS.get(super.exports)
InstanceExports(cache) == CacheGet(cache, RawExportsObj)

\* ------------------------------------------------ wrapping of imports
\* wrapModuleImports: the proxy hands the guest a wrapper for every import
\* that is a function, and the value itself otherwise
ImportIsWrapped(name) == ImportDefs[name].isFn


\* ------------------------------------------------ the running bridge
\* w = [state, value, data, promises, log] is what a synchronous segment
\* reads and writes.  An event of the log:
\*   e = "ctl":    control export `name` was called in guest state st
\*   e = "import": the wrapper of import `name` was entered in state st;
\*                 `under` tells whether it invoked the underlying function,
\*                 `ctl` the control export it called, `ret` what it returned
\*   e = "fn":     guest function f was invoked in state st with argument ret
Ev(e, name, f, st, under, threw, ctl, ret) ==
  [e |-> e, name |-> name, f |-> f, st |-> st, under |-> under,
   threw |-> threw, ctl |-> ctl, ret |-> ret]
CtlEv(name, st) == Ev("ctl", name, 0, st, FALSE, FALSE, "", Undef)
ImportEv(name, st, under, threw, ctl, ret) ==
  Ev("import", name, 0, st, under, threw, ctl, ret)
FnEv(f, st, arg) == Ev("fn", "", f, st, FALSE, FALSE, "", Num(arg))

\* the guest's control exports
asyncify_start_unwind(w) ==
  [w EXCEPT !.state = Unwinding,
            !.log = Append(@, CtlEv("asyncify_start_unwind", w.state))]
asyncify_stop_unwind(w) ==
  [w EXCEPT !.state = None,
            !.log = Append(@, CtlEv("asyncify_stop_unwind", w.state))]
asyncify_start_rewind(w) ==
  [w EXCEPT !.state = Rewinding,
            !.log = Append(@, CtlEv("asyncify_start_rewind", w.state))]
asyncify_stop_rewind(w) ==
  [w EXCEPT !.state = None,
            !.log = Append(@, CtlEv("asyncify_stop_rewind", w.state))]

\* variant: the assertion never throws
assertNoneState_Never(st) == TRUE

\* assertNoneState: TRUE when it does not throw
assertNoneState(st) == st = None

\* a promise identity not in use
NewPromise(ps) == CHOOSE p \in 1..(Cardinality(ps) + 1) :
                    p \notin ps /\ \A q \in 1..(p - 1) : q \in ps

\* the underlying import function: an async one returns a new pending
\* promise, a synchronous one its value
Underlying(name, w) ==
  IF ImportDefs[name].async
  THEN [w |-> [w EXCEPT !.promises = @ \cup {NewPromise(w.promises)}],
        v |-> PromiseRef(NewPromise(w.promises))]
  ELSE [w |-> w, v |-> Num(ImportDefs[name].ret)]

\* variant: no branch for the Rewinding state
wrapImportFn_NoRewindBranch(name, w) ==
  IF ~assertNoneState(w.state)
  THEN [w |-> [w EXCEPT !.log = Append(@,
                 ImportEv(name, w.state, FALSE, TRUE, "", Undef))],
        threw |-> TRUE, ret |-> Undef]
  ELSE LET r == Underlying(name, w) IN
       IF ~isPromise(r.v)
       THEN [w |-> [r.w EXCEPT !.log = Append(@,
                      ImportEv(name, w.state, TRUE, FALSE, "", r.v))],
             threw |-> FALSE, ret |-> r.v]
       ELSE LET w1 == asyncify_start_unwind(r.w) IN
            [w |-> [w1 EXCEPT !.value = r.v,
                              !.log = Append(@,
                      ImportEv(name, w.state, TRUE, FALSE, "asyncify_start_unwind", Undef))],
             threw |-> FALSE, ret |-> Undef]

\* variant: the wrapper unwinds whatever the underlying function returns
wrapImportFn_AlwaysUnwinds(name, w) ==
  IF w.state = Rewinding
  THEN LET w1 == asyncify_stop_rewind(w) IN
       [w |-> [w1 EXCEPT !.log = Append(@,
                 ImportEv(name, w.state, FALSE, FALSE, "asyncify_stop_rewind", w.value))],
        threw |-> FALSE, ret |-> w.value]
  ELSE IF ~assertNoneState(w.state)
  THEN [w |-> [w EXCEPT !.log = Append(@,
                 ImportEv(name, w.state, FALSE, TRUE, "", Undef))],
        threw |-> TRUE, ret |-> Undef]
  ELSE LET r == Underlying(name, w)
           w1 == asyncify_start_unwind(r.w)
       IN [w |-> [w1 EXCEPT !.value = r.v,
                            !.log = Append(@,
                    ImportEv(name, w.state, TRUE, FALSE, "asyncify_start_unwind", Undef))],
           threw |-> FALSE, ret |-> Undef]

\* the function returned by wrapImportFn(fn), called by the guest
wrapImportFn(name, w) ==
  IF w.state = Rewinding
  THEN LET w1 == asyncify_stop_rewind(w) IN
       [w |-> [w1 EXCEPT !.log = Append(@,
                 ImportEv(name, w.state, FALSE, FALSE, "asyncify_stop_rewind", w.value))],
        threw |-> FALSE, ret |-> w.value]
  ELSE IF ~assertNoneState(w.state)
  THEN [w |-> [w EXCEPT !.log = Append(@,
                 ImportEv(name, w.state, FALSE, TRUE, "", Undef))],
        threw |-> TRUE, ret |-> Undef]
  ELSE LET r == Underlying(name, w) IN
       IF ~isPromise(r.v)
       THEN [w |-> [r.w EXCEPT !.log = Append(@,
                      ImportEv(name, w.state, TRUE, FALSE, "", r.v))],
             threw |-> FALSE, ret |-> r.v]
       ELSE LET w1 == asyncify_start_unwind(r.w) IN
            [w |-> [w1 EXCEPT !.value = r.v,
                              !.log = Append(@,
                      ImportEv(name, w.state, TRUE, FALSE, "asyncify_start_unwind", Undef))],
             threw |-> FALSE, ret |-> Undef]

\* what the guest reaches when it calls import `name`
CallImport(name, w) ==
  IF ImportIsWrapped(name)
  THEN wrapImportFn(name, w)
  ELSE LET r == Underlying(name, w) IN
       [w |-> [r.w EXCEPT !.log = Append(@,
                 ImportEv(name, w.state, TRUE, FALSE, "", r.v))],
        threw |-> FALSE, ret |-> r.v]

\* outcome of one invocation of a guest function
Ret(n) == [k |-> "ret", n |-> n]
Throw == [k |-> "throw", n |-> 0]
Trap == [k |-> "trap", n |-> 0]

\* the guest function f running from its pc-th import call with local acc
RECURSIVE RunGuest(_, _, _, _)
RunGuest(f, w, pc, acc) ==
  IF pc > Len(Body[f])
  THEN [w |-> w, out |-> Ret(acc)]
  ELSE LET r == CallImport(Body[f][pc], w) IN
       IF r.threw
       THEN [w |-> r.w, out |-> Throw]
       ELSE IF Instrumented[f] /\ r.w.state = Unwinding
       THEN [w |-> [r.w EXCEPT !.data = Append(@, [pc |-> pc, acc |-> acc])],
             out |-> Ret(0)]
       ELSE RunGuest(f, r.w, pc + 1, Combine(acc, ToInt32(r.ret)))

\* fn(...args): entering guest function f with argument arg
GuestCall(f, w, arg) ==
  LET w0 == [w EXCEPT !.log = Append(@, FnEv(f, w.state, arg))] IN
  IF Instrumented[f] /\ w.state = Rewinding
  THEN IF w.data = << >>
       THEN [w |-> w0, out |-> Trap]
       ELSE LET fr == w.data[Len(w.data)]
                w1 == [w0 EXCEPT !.data = SubSeq(@, 1, Len(@) - 1)]
            IN IF fr.pc > Len(Body[f])
               THEN [w |-> w1, out |-> Trap]
               ELSE RunGuest(f, w1, fr.pc, fr.acc)
  ELSE RunGuest(f, w0, 1, arg)


\* ------------------------------------------------ the reference run
\* The guest function as it runs when every import returns synchronously:
\* no bridge, no unwinding.  SyncRun runs f from its pc-th import call with
\* local acc; at an async import it stops and reports where (the value that
\* import returns is then supplied with SyncContinue).
RECURSIVE SyncRun(_, _, _)
SyncRun(f, pc, acc) ==
  IF pc > Len(Body[f])
  THEN [done |-> TRUE, pc |-> pc, acc |-> acc]
  ELSE IF ImportDefs[Body[f][pc]].async
  THEN [done |-> FALSE, pc |-> pc, acc |-> acc]
  ELSE SyncRun(f, pc + 1, Combine(acc, ImportDefs[Body[f][pc]].ret))

\* the async import at r.pc returns x synchronously and the function goes on
SyncContinue(f, r, x) ==
  IF r.done THEN r ELSE SyncRun(f, r.pc + 1, Combine(r.acc, x))

\* ------------------------------------------------ the wrapped export
\* result of one synchronous segment of the async wrapper newExport
Segment(w, st, result, err, awaiting, entered) ==
  [w |-> w, st |-> st, result |-> result, err |-> err, awaiting |-> awaiting,
   entered |-> entered]

InvalidState == "Invalid async state"

\* variant: the loop calls stop_rewind where it should call stop_unwind
AfterPass_StopRewind(r) ==
  IF r.out.k = "throw"
  THEN Segment(r.w, "rejected", 0, InvalidState, Undef, TRUE)
  ELSE IF r.out.k = "trap"
  THEN Segment(r.w, "rejected", 0, "unreachable", Undef, TRUE)
  ELSE IF r.w.state = Unwinding
  THEN Segment(asyncify_stop_rewind(r.w), "suspended", 0, "", r.w.value, TRUE)
  ELSE IF ~assertNoneState(r.w.state)
  THEN Segment(r.w, "rejected", 0, InvalidState, Undef, TRUE)
  ELSE Segment(r.w, "returned", r.out.n, "", Undef, TRUE)

\* after `result = fn(...args)`: the while test, the body up to the await,
\* or the final assertion and return
AfterPass(r) ==
  IF r.out.k = "throw"
  THEN Segment(r.w, "rejected", 0, InvalidState, Undef, TRUE)
  ELSE IF r.out.k = "trap"
  THEN Segment(r.w, "rejected", 0, "unreachable", Undef, TRUE)
  ELSE IF r.w.state = Unwinding
  THEN Segment(asyncify_stop_unwind(r.w), "suspended", 0, "", r.w.value, TRUE)
  ELSE IF ~assertNoneState(r.w.state)
  THEN Segment(r.w, "rejected", 0, InvalidState, Undef, TRUE)
  ELSE Segment(r.w, "returned", r.out.n, "", Undef, TRUE)

\* newExport(...args) from its entry to its first await or its end
ExportEnter(f, arg, w) ==
  IF ~assertNoneState(w.state)
  THEN Segment(w, "rejected", 0, InvalidState, Undef, FALSE)
  ELSE AfterPass(GuestCall(f, w, arg))

\* variant: the re-invocation passes another argument than the call received
ExportResume_OtherArgs(f, arg, w, x) ==
  LET w1 == [w EXCEPT !.value = x] IN
  IF ~assertNoneState(w1.state)
  THEN Segment(w1, "rejected", 0, InvalidState, Undef, FALSE)
  ELSE AfterPass(GuestCall(f, asyncify_start_rewind(w1), 1 - arg))

\* newExport resumed by the awaited value x, up to its next await or its end
ExportResume(f, arg, w, x) ==
  LET w1 == [w EXCEPT !.value = x] IN
  IF ~assertNoneState(w1.state)
  THEN Segment(w1, "rejected", 0, InvalidState, Undef, FALSE)
  ELSE AfterPass(GuestCall(f, asyncify_start_rewind(w1), arg))

\* ------------------------------------------------ Asyncify.init
DATA_START == DATA_ADDR + 8
GlobalValue == [__stack_pointer |-> 4096]
DefaultDataEnd == 1024

HasMemory(raw) == "memory" \in DOMAIN raw

\* the guest module without the stack pointer export, and the modules tried
Stackless == [name \in DOMAIN RawExports \ { "__stack_pointer" } |-> RawExports[name]]
Modules == { RawExports, Stackless }

\* the values the stack pointer global holds at init: the top of the guest's
\* stack, which lies above its static data
StackTops == { GlobalValue.__stack_pointer, 16 * GlobalValue.__stack_pointer }

\* variant: the end of the region is always the default
DataEnd_Default(raw, sp) == DefaultDataEnd

\* dataEnd of init, for the module `raw` whose stack pointer global holds sp
DataEnd(raw, sp) ==
  IF "__stack_pointer" \in DOMAIN raw THEN sp
  ELSE DefaultDataEnd

\* ---------------------------------------------------------- helpers
World == [state |-> state, value |-> value, data |-> data,
          promises |-> promises, log |-> << >>]

SetWorld(w) ==
  /\ state' = w.state
  /\ value' = w.value
  /\ data' = w.data
  /\ promises' = w.promises
  /\ log' = w.log

CtlNames(lg) ==
  LET sel == SelectSeq(lg, LAMBDA ev : ev.e = "ctl")
  IN [i \in 1..Len(sel) |-> sel[i].name]

FnArgs(lg) ==
  LET sel == SelectSeq(lg, LAMBDA ev : ev.e = "fn")
  IN [i \in 1..Len(sel) |-> sel[i].ret.n]

\* number of underlying import functions that returned a promise
AsyncInvocations(lg) ==
  Len(SelectSeq(lg, LAMBDA ev : ev.e = "import" /\ ev.under
                                 /\ ev.ctl = "asyncify_start_unwind"))

\* op: "call" (wrapped export), "direct" (unwrapped export), "resume";
\* tbl: the object instance.exports gave; outcome: how the segment ended;
\* ret: the value returned; x: the value the await produced
Last(op, name, tbl, outcome, ret, x) ==
  [op |-> op, name |-> name, tbl |-> tbl, outcome |-> outcome, ret |-> ret,
   x |-> x]

\* the host reaches every export through instance.exports
HostExports == InstanceExports(WRAPPED_EXPORTS)
HostTable == tables[HostExports]

UnchangedHeap == UNCHANGED << unwrappedExports, exports, descriptor,
                              WRAPPED_EXPORTS, wrappers, tables, nextObj, hostvars >>

\* `calls` holds the suspended calls in the order they were made and ncalls
\* counts the calls made.  A call that has ended is dropped from `calls` and
\* what it did is kept in `fin` for one step.  A promise that no
\* suspended call awaits can no longer influence the program and is dropped
\* from `promises`, the set of pending promises.
NoCall == [name |-> "", f |-> 0, arg |-> 0, st |-> "none", awaiting |-> Undef,
           result |-> 0, err |-> "", ref |-> [done |-> FALSE, pc |-> 0, acc |-> 0],
           trace |-> << >>, passes |-> << >>, pre |-> None, k |-> 0, au |-> 0]
Awaited(cs, p) ==
  \E c \in 1..Len(cs) : cs[c].st = "suspended" /\ cs[c].awaiting = PromiseRef(p)

Collect(ps, cs) == { p \in ps : Awaited(cs, p) }

Retire(cs) == SelectSeq(cs, LAMBDA r : r.st = "suspended")

\* the state after a segment of call c that left the world w and the calls cs
EndSegment(w, cs, c) ==
  /\ state' = w.state
  /\ value' = w.value
  /\ data' = w.data
  /\ log' = w.log
  /\ calls' = Retire(cs)
  /\ promises' = Collect(w.promises, Retire(cs))
  /\ fin' = IF cs[c].st = "suspended" THEN NoCall ELSE cs[c]
  /\ ncalls' = ncalls + (IF Len(cs) > Len(calls) THEN 1 ELSE 0)

\* ------------------------------------------------------------- Init
BridgeIdle ==
  /\ exports = 0
  /\ value = Undef
  /\ descriptor = << 0, 0 >>
  /\ WRAPPED_EXPORTS = << >>
  /\ wrappers = << >>
  /\ tables = << >>
  /\ nextObj = FirstFreshObj
  /\ state = None
  /\ data = << >>
  /\ promises = {}
  /\ calls = << >>
  /\ ncalls = 0
  /\ log = << >>
  /\ fin = NoCall
  /\ last = Last("new", "", 0, "", Undef, Undef)

Init ==
  /\ unwrappedExports \in { AsyncifyConstructor(o) : o \in OptionChoices }
  /\ BridgeIdle
  /\ HostIdle

\* ---------------------------------------------------------- actions
\* an exception, as a host value
Thrown(what) == [k |-> what, n |-> 0]
MemoryNotFound == "Memory not found in exports or imports.env"
ExportsNotInitialized == "Exports not initialized"
NotAFunction == "TypeError: asyncify_get_state is not a function"

\* exports.memory || imports?.env?.memory
MemoryFound(raw, env) == HasMemory(raw) \/ env

\* Asyncify.init on the instance of module `raw` (named mod) whose stack
\* pointer global holds sp; env tells whether imports.env holds a memory
initWith(mod, raw, env, sp) ==
  /\ MemoryFound(raw, env)
  /\ \E r \in { wrapExports(RawExportsObj, raw, unwrappedExports,
                            [cache |-> WRAPPED_EXPORTS, wrappers |-> wrappers,
                             next |-> nextObj]) } :
        /\ descriptor' = << DATA_START, DataEnd(raw, sp) >>
        /\ exports' = r.out
        /\ tables' = (r.out :> r.tbl) @@ tables
        /\ WRAPPED_EXPORTS' = r.h.cache
        /\ wrappers' = r.h.wrappers
        /\ nextObj' = r.h.next
  /\ last' = Last("init", mod, 0, "value", Undef, Num(sp))
  /\ log' = << >>
  /\ fin' = NoCall
  /\ UNCHANGED << unwrappedExports, value, state, data, promises, calls, ncalls >>
  /\ UNCHANGED hostvars

\* ... of the guest module, which exports its memory
init(raw, sp) == initWith("", raw, FALSE, sp)

\* instantiate(): WebAssembly.instantiate with the wrapped imports, then
\* Asyncify.init on the resulting instance
Instantiate ==
  /\ exports = 0
  /\ init(RawExports, GlobalValue.__stack_pointer)

\* the module behind table tbl exports asyncify_get_state
HasControls(tbl) == "asyncify_get_state" \in DOMAIN tbl

\* the host calls an export that wrapExports wrapped, of a module with the
\* asyncify control exports
CallWrapped(name, arg) ==
  /\ exports # 0
  /\ ncalls < MaxCalls
  /\ HostExports \in DOMAIN tables
  /\ HasControls(HostTable)
  /\ HostTable[name] \in DOMAIN wrappers
  /\ LET f == wrappers[HostTable[name]]
         r == ExportEnter(f, arg, World)
         c == Len(calls) + 1
         rec == [name |-> name, f |-> f, arg |-> arg, st |-> r.st,
                 awaiting |-> r.awaiting, result |-> r.result, err |-> r.err,
                 ref |-> SyncRun(f, 1, arg), trace |-> CtlNames(r.w.log),
                 passes |-> FnArgs(r.w.log), pre |-> state,
                 k |-> IF r.st = "suspended" THEN 1 ELSE 0,
                 au |-> AsyncInvocations(r.w.log)]
     IN /\ EndSegment(r.w, Append(calls, rec), c)
        /\ last' = Last("call", name, HostExports, r.st,
                        IF r.st = "returned" THEN Num(r.result) ELSE Undef, Undef)
  /\ UnchangedHeap

\* the host calls an export that wrapExports left as it was
CallDirect(name, arg) ==
  /\ exports # 0
  /\ HostExports \in DOMAIN tables
  /\ HostTable[name] \in GuestFns
  /\ LET r == GuestCall(HostTable[name], World, arg)
     IN /\ SetWorld([r.w EXCEPT !.promises = Collect(@, calls)])
        /\ last' = Last("direct", name, HostExports,
                        IF r.out.k = "ret" THEN "value" ELSE "threw",
                        IF r.out.k = "ret" THEN Num(r.out.n) ELSE Undef, Undef)
  /\ fin' = NoCall
  /\ UNCHANGED << calls, ncalls >>
  /\ UnchangedHeap

\* The promise a suspended call awaits resolves to x and the call continues
\* after its await.  (Settling the promise commutes with every other step;
\* its only effect is to let the awaiting call continue.)
Resume(c, x) ==
  /\ c \in 1..Len(calls)
  /\ calls[c].st = "suspended"
  /\ \E rx \in { IF isPromise(calls[c].awaiting) THEN Num(x) ELSE calls[c].awaiting } :
       \E r \in { ExportResume(calls[c].f, calls[c].arg, World, rx) } :
        /\ EndSegment(r.w,
             [calls EXCEPT
                ![c].st = r.st, ![c].awaiting = r.awaiting,
                ![c].result = r.result, ![c].err = r.err,
                ![c].ref = SyncContinue(calls[c].f, @, ToInt32(rx)),
                ![c].trace = @ \o CtlNames(r.w.log),
                ![c].passes = @ \o FnArgs(r.w.log),
                ![c].k = IF r.st = "suspended" THEN @ + 1 ELSE @,
                ![c].au = @ + AsyncInvocations(r.w.log)], c)
        /\ last' = Last("resume", calls[c].name, 0, r.st,
                        IF r.st = "returned" THEN Num(r.result) ELSE Undef, rx)
  /\ UnchangedHeap

\* variant: the rewind is started before the rejection is passed on
ResumeRejected_Rewinds(c) ==
  /\ c \in 1..Len(calls)
  /\ calls[c].st = "suspended"
  /\ isPromise(calls[c].awaiting)
  /\ EndSegment(asyncify_start_rewind(World),
        [calls EXCEPT ![c].st = "rejected", ![c].err = "reason",
                      ![c].awaiting = Undef,
                      ![c].trace = Append(@, "asyncify_start_rewind")], c)
  /\ last' = Last("resume", calls[c].name, 0, "rejected", Undef, Undef)
  /\ UnchangedHeap

\* The promise a suspended call awaits rejects: the await throws and the
\* async wrapper ends, rejected with the reason.
ResumeRejected(c) ==
  /\ c \in 1..Len(calls)
  /\ calls[c].st = "suspended"
  /\ isPromise(calls[c].awaiting)
  /\ EndSegment(World,
        [calls EXCEPT ![c].st = "rejected", ![c].err = "reason",
                      ![c].awaiting = Undef], c)
  /\ last' = Last("resume", calls[c].name, 0, "rejected", Undef, Undef)
  /\ UnchangedHeap

Next ==
  \/ Instantiate
  \/ \E name \in HostCallNames, arg \in Vals : CallWrapped(name, arg)
  \/ \E name \in HostCallNames : CallDirect(name, 1)
  \/ \E c \in 1..Len(calls), x \in Vals : Resume(c, x)
  \/ \E c \in 1..Len(calls) : ResumeRejected(c)

Spec == Init /\ [][Next]_vars


\* ================================================================ claims

\* ---------------------------------------------------------------- C1
\* C1: a wrapped export whose guest body suspended on async imports
\* finally resolves to the value the same body returns, from the same
\* argument, when those imports return the same values synchronously.
C1_AsyncEqualsSync ==
  (fin.st = "returned" /\ fin.k >= 1) =>
     (fin.ref.done /\ fin.result = fin.ref.acc)

\* ---------------------------------------------------------------- C2
\* C2: a wrapped export invoked while an earlier wrapped-export call is
\* suspended throws the invalid-async-state error without entering the
\* guest function.
C2_SecondCallRejected ==
  [][ (calls # << >> /\ last'.op = "call") =>
        (fin'.st = "rejected" /\ fin'.err = InvalidState /\ fin'.passes = << >>) ]_vars

\* ---------------------------------------------------------------- C3
\* C3: the pending result slot has at most one occupant: while a pending
\* result is outstanding (stored, not yet returned to the guest by its
\* rewind) it is the only one and the slot still holds it.
C3_SingleOccupant ==
  calls # << >> => (Len(calls) = 1 /\ value = calls[1].awaiting)

\* ---------------------------------------------------------------- C4
\* C4: a wrapped-export call that suspended k times and returned made
\* exactly k calls of each control export in the repeating order
\* start_unwind, stop_unwind, start_rewind, stop_rewind, and the guest state
\* was None before the call and is None when it returns.
RECURSIVE Cycles(_)
Cycles(k) ==
  IF k = 0 THEN << >>
  ELSE << "asyncify_start_unwind", "asyncify_stop_unwind",
          "asyncify_start_rewind", "asyncify_stop_rewind" >> \o Cycles(k - 1)

C4_PairedCycles ==
  fin.st = "returned" =>
     (fin.trace = Cycles(fin.k) /\ fin.pre = None /\ state = None)

C4_Witness == fin.st = "returned" /\ fin.k = 2

\* ---------------------------------------------------------------- C5
\* the exports behind createInt, malloc and free
MarshalingExports == {"zeroperl_new_int", "malloc", "free"}

IsHostCall(l) == l.op \in {"call", "direct"}

\* C5: a value-marshaling export excluded from wrapping that the host calls
\* while a wrapped export is suspended is called directly and returns
\* synchronously, without a state error and without changing the asyncify
\* state or the pending slot; the suspended call is left as it was (same
\* awaited result, same saved frames), so it resumes as if the operation
\* had not happened.
C5_SyncExportsUndisturbed ==
  [][ (/\ calls # << >>
       /\ IsHostCall(last')
       /\ last'.name \in MarshalingExports \cap unwrappedExports) =>
        /\ last'.op = "direct"
        /\ last'.outcome = "value"
        /\ \A i \in 1..Len(log') : log'[i].e = "fn"
        /\ state' = state
        /\ value' = value
        /\ calls' = calls
        /\ data' = data
        /\ promises' = promises ]_vars

C5_Witness ==
  /\ calls # << >>
  /\ last.op = "direct"
  /\ last.name = "zeroperl_new_int"
  /\ last.outcome = "value"

\* ---------------------------------------------------------------- C6
\* C6: a wrapped export entered while the guest state is not None, and a
\* wrapped import entered while the state is Unwinding, throw the
\* 'Invalid async state' error at once: the underlying function is not
\* invoked, no control export is called, nothing is retried or repaired.
C6_AssertionIsFatal ==
  [][ /\ (last'.op = "call" /\ state # None) =>
            /\ fin'.st = "rejected"
            /\ fin'.err = InvalidState
            /\ log' = << >>
            /\ state' = state
            /\ value' = value
            /\ data' = data
      /\ \A i \in 1..Len(log') :
            (log'[i].e = "import" /\ log'[i].st = Unwinding) =>
               /\ log'[i].threw
               /\ ~log'[i].under
               /\ log'[i].ctl = ""
               /\ i = Len(log')
               /\ state' = Unwinding
               /\ (last'.op # "direct" =>
                     (fin'.st = "rejected" /\ fin'.err = InvalidState)) ]_vars

C6_Witness ==
  /\ last.op = "call"
  /\ fin.st = "rejected"
  /\ fin.passes = << >>
  /\ state = Unwinding

C6_WitnessImport ==
  /\ log # << >>
  /\ log[Len(log)].e = "import"
  /\ log[Len(log)].st = Unwinding
  /\ log[Len(log)].threw

\* ---------------------------------------------------------------- C7
\* C7: a wrapped import invoked while the state is Rewinding calls
\* stop_rewind and returns the resolved value held in the pending slot (the
\* value the resuming wrapper has just stored there, or the one already
\* there) without invoking the underlying function; so for a call that is
\* suspended or has returned, the underlying async function ran once per
\* suspension.
C7_RewindAnswersFromSlot ==
  [][ /\ \A i \in 1..Len(log') :
            (log'[i].e = "import" /\ log'[i].st = Rewinding) =>
               /\ ~log'[i].under
               /\ ~log'[i].threw
               /\ log'[i].ctl = "asyncify_stop_rewind"
               /\ log'[i].ret = (IF last'.op = "resume" THEN last'.x ELSE value)
               /\ log'[i].ret.k = "num"
      /\ \A c \in 1..Len(calls') : calls'[c].au = calls'[c].k
      /\ fin'.st = "returned" => fin'.au = fin'.k ]_vars

C7_Witness ==
  /\ fin.st = "returned"
  /\ fin.k = 2
  /\ \E i \in 1..Len(log) : log[i].e = "import" /\ log[i].st = Rewinding

\* ---------------------------------------------------------------- C8
\* what the caller and the defaults name as excluded from wrapping
ExclusionList == DEFAULT_UNWRAPPED_EXPORTS \cup unwrappedExports

C9_WrapsExactly ==
  exports # 0 =>
    /\ DOMAIN tables[exports] = DOMAIN RawExports
    /\ \A name \in DOMAIN RawExports :
          IF /\ RawExports[name] \in GuestFns
             /\ name \notin ExclusionList
          THEN /\ tables[exports][name] \in DOMAIN wrappers
               /\ wrappers[tables[exports][name]] = RawExports[name]
          ELSE tables[exports][name] = RawExports[name]

C9_Witness ==
  /\ exports # 0
  /\ "zeroperl_new_int" \in unwrappedExports
  /\ tables[exports]["zeroperl_new_int"] = RawExports["zeroperl_new_int"]
  /\ tables[exports]["zeroperl_eval"] \in DOMAIN wrappers
  /\ tables[exports]["asyncify_get_state"] = RawExports["asyncify_get_state"]

\* ---------------------------------------------------------------- C10
\* C10: wrapping is identity-cached: a function wrapped more than once (one
\* exported under two names) has one wrapper, which the cache records, no
\* function has two wrappers, and every read of instance.exports yields the
\* one wrapped table that init built.
C10_WrappingCached ==
  exports # 0 =>
    /\ \A n1, n2 \in DOMAIN RawExports :
          RawExports[n1] = RawExports[n2] =>
             tables[exports][n1] = tables[exports][n2]
    /\ \A w1, w2 \in DOMAIN wrappers :
          wrappers[w1] = wrappers[w2] => w1 = w2
    /\ \A w1 \in DOMAIN wrappers :
          CacheGet(WRAPPED_EXPORTS, wrappers[w1]) = w1
    /\ InstanceExports(WRAPPED_EXPORTS) = exports
    /\ IsHostCall(last) => last.tbl = exports

C10_Witness ==
  /\ exports # 0
  /\ IsHostCall(last)
  /\ last.tbl = exports
  /\ tables[exports]["eval"] \in DOMAIN wrappers
  /\ tables[exports]["eval"] = tables[exports]["zeroperl_eval"]

\* ------------------------------------------------ calls that do not overlap
\* The host that never calls a wrapped export while another call is
\* suspended (the use the bridge is written for).
NextSolo ==
  \/ Instantiate
  \/ \E name \in HostCallNames, arg \in Vals :
        calls = << >> /\ CallWrapped(name, arg)
  \/ \E name \in HostCallNames : CallDirect(name, 1)
  \/ \E c \in 1..Len(calls), x \in Vals : Resume(c, x)
  \/ \E c \in 1..Len(calls) : ResumeRejected(c)

SpecSolo == Init /\ [][NextSolo]_vars

\* ======================================================= the ZeroPerl layer
\* Host (JavaScript) values handed to and returned by ZeroPerl.  A number is
\* kept in halves, so that n = 3 stands for 1.5 and an integer is an even n;
\* a proxy is named by its index in `proxies`.
JV(k, b, n, s, xs, ks) == [k |-> k, b |-> b, n |-> n, s |-> s, xs |-> xs, ks |-> ks]
JNull == JV("null", FALSE, 0, "", << >>, << >>)
JUndefined == JV("undefined", FALSE, 0, "", << >>, << >>)
JBool(b) == JV("boolean", b, 0, "", << >>, << >>)
JNum(n) == JV("number", FALSE, n, "", << >>, << >>)
JStr(s) == JV("string", FALSE, 0, s, << >>, << >>)
JArr(xs) == JV("array", FALSE, 0, "", xs, << >>)
JObj(ks, xs) == JV("object", FALSE, 0, "", xs, ks)
JProxy(p) == JV("PerlValue", FALSE, p, "", << >>, << >>)
\* a value of another type: a function, a symbol, a bigint
JFunction == JV("function", FALSE, 0, "", << >>, << >>)

\* a Number.isInteger that holds of every number
NumberIsInteger_Always(n) == TRUE

\* Number.isInteger(value), Math.floor(value)
NumberIsInteger(n) == n % 2 = 0
MathFloor(n) == n - (n % 2)

\* ---- the guest interpreter's values
\* type codes returned by zeroperl_get_type
T_UNDEF == 0
T_TRUE == 1
T_FALSE == 2
T_INT == 3
T_DOUBLE == 4
T_STRING == 5
T_ARRAY == 6
T_HASH == 7
T_CODE == 8
T_REF == 9

\* a guest value: type code, number (in halves), string, element handles
\* and, for a hash, their keys; for a reference, n is the handle referred to
GV(t, n, s, xs, ks) == [t |-> t, n |-> n, s |-> s, xs |-> xs, ks |-> ks]

\* the state an operation of the layer works on, and what an operation
\* returns: the state it leaves, whether it threw, the message, the value
Host == [isDisposed |-> isDisposed, hostFunctions |-> hostFunctions,
         nextFuncId |-> nextFuncId, proxies |-> proxies, heap |-> heap,
         perlVars |-> perlVars, hostError |-> hostError, xlog |-> << >>,
         invoked |-> << >>, lastError |-> lastError]

Returns(h, v) == [h |-> h, threw |-> FALSE, msg |-> "", ret |-> v]
Throws(h, msg) == [h |-> h, threw |-> TRUE, msg |-> msg, ret |-> JUndefined]

\* a call of the guest export `name` on handle a is recorded
Called(h, name, a) == [h EXCEPT !.xlog = Append(@, [name |-> name, a |-> a])]

\* the guest allocates a value and returns its handle
Alloc(h, name, gv) ==
  [h |-> [Called(h, name, 0) EXCEPT !.heap = Append(@, gv)],
   ptr |-> Len(h.heap) + 1]

\* how the interpreter prints a number kept in halves
NumForm(n) ==
  IF n % 2 = 0 THEN ToString(n \div 2)
  ELSE IF n > 0 THEN ToString(n \div 2) \o ".5"
  ELSE "-" \o ToString((0 - n) \div 2) \o ".5"

\* how the interpreter prints a value (zeroperl_to_string)
StringForm(gv) ==
  CASE gv.t = T_STRING -> gv.s
    [] gv.t = T_UNDEF -> ""
    [] gv.t = T_TRUE -> "1"
    [] gv.t = T_FALSE -> ""
    [] gv.t = T_INT -> NumForm(gv.n)
    [] gv.t = T_DOUBLE -> NumForm(gv.n)
    [] gv.t = T_ARRAY -> "ARRAY(0x1)"
    [] gv.t = T_HASH -> "HASH(0x1)"
    [] gv.t = T_CODE -> "CODE(0x1)"
    [] OTHER -> "REF(0x1)"

\* the number the interpreter makes of a value (zeroperl_to_double)
NumberForm(gv) ==
  CASE gv.t = T_INT -> gv.n
    [] gv.t = T_DOUBLE -> gv.n
    [] gv.t = T_TRUE -> 2
    [] OTHER -> 0

\* Perl's truth test (zeroperl_to_bool)
TruthForm(gv) ==
  CASE gv.t = T_UNDEF -> FALSE
    [] gv.t = T_FALSE -> FALSE
    [] gv.t = T_INT -> gv.n # 0
    [] gv.t = T_DOUBLE -> gv.n # 0
    [] gv.t = T_STRING -> gv.s \notin {"", "0"}
    [] OTHER -> TRUE

\* ---- the proxies
\* `new PerlValue(ptr, exports)` and its siblings: the object is appended to
\* `proxies`.  frees counts the calls of the guest's free export that the
\* object's dispose() made; pending says that an async dispose() is at its
\* await.
NewProxy(h, cls, ptr) ==
  [h |-> [h EXCEPT !.proxies = Append(@,
            [cls |-> cls, ptr |-> ptr, disposed |-> FALSE, frees |-> 0,
             pending |-> 0])],
   p |-> Len(h.proxies) + 1]

\* a checkDisposed() that never throws
checkDisposed_Never(h, p) == TRUE

\* checkDisposed() of a proxy: TRUE when it does not throw
checkDisposed(h, p) == ~h.proxies[p].disposed

DisposedMessage(h, p) == h.proxies[p].cls \o " has been disposed"

\* function mapPerlType(typeCode); the type is named by its index in `types`
PerlValueTypes ==
  << "undef", "true", "false", "int", "double",
     "string", "array", "hash", "code", "ref" >>

\* a mapPerlType that names every type "string"
mapPerlType_AllString(typeCode) == "string"

mapPerlType(typeCode) ==
  IF typeCode + 1 \in DOMAIN PerlValueTypes THEN PerlValueTypes[typeCode + 1]
  ELSE "undef"

\* ---- class PerlValue
PerlValue_getPtr(h, p) ==
  IF ~checkDisposed(h, p) THEN Throws(h, DisposedMessage(h, p))
  ELSE Returns(h, JNum(h.proxies[p].ptr))

PerlValue_toDouble(h, p) ==
  IF ~checkDisposed(h, p) THEN Throws(h, DisposedMessage(h, p))
  ELSE LET ptr == h.proxies[p].ptr
           h1 == Called(h, "malloc", 0)
           h2 == Called(h1, "zeroperl_to_double", ptr)
           h3 == Called(h2, "free", 0)
       IN Returns(h3, JNum(NumberForm(h.heap[ptr])))

PerlValue_toString(h, p) ==
  IF ~checkDisposed(h, p) THEN Throws(h, DisposedMessage(h, p))
  ELSE LET ptr == h.proxies[p].ptr
           h1 == Called(h, "malloc", 0)
           h2 == Called(h1, "zeroperl_to_string", ptr)
           h3 == Called(h2, "free", 0)
       IN Returns(h3, JStr(StringForm(h.heap[ptr])))

PerlValue_isUndef(h, p) ==
  IF ~checkDisposed(h, p) THEN Throws(h, DisposedMessage(h, p))
  ELSE LET ptr == h.proxies[p].ptr
       IN Returns(Called(h, "zeroperl_is_undef", ptr), JBool(h.heap[ptr].t = T_UNDEF))

PerlValue_getType(h, p) ==
  IF ~checkDisposed(h, p) THEN Throws(h, DisposedMessage(h, p))
  ELSE LET ptr == h.proxies[p].ptr
       IN Returns(Called(h, "zeroperl_get_type", ptr), JStr(mapPerlType(h.heap[ptr].t)))

PerlValue_project(h, p) ==
  IF ~checkDisposed(h, p) THEN Throws(h, DisposedMessage(h, p))
  ELSE LET u == PerlValue_isUndef(h, p) IN
       IF u.ret.b THEN Returns(u.h, JNull)
       ELSE LET t == PerlValue_getType(u.h, p) IN
            CASE t.ret.s = "true" -> Returns(t.h, JBool(TRUE))
              [] t.ret.s = "false" -> Returns(t.h, JBool(FALSE))
              [] t.ret.s \in {"int", "double"} -> PerlValue_toDouble(t.h, p)
              [] OTHER -> PerlValue_toString(t.h, p)

PerlValue_toInt(h, p) ==
  IF ~checkDisposed(h, p) THEN Throws(h, DisposedMessage(h, p))
  ELSE LET ptr == h.proxies[p].ptr
           h1 == Called(h, "malloc", 0)
           h2 == Called(h1, "zeroperl_to_int", ptr)
           h3 == Called(h2, "free", 0)
       IN Returns(h3, JNum(MathFloor(NumberForm(h.heap[ptr]))))

PerlValue_toBoolean(h, p) ==
  IF ~checkDisposed(h, p) THEN Throws(h, DisposedMessage(h, p))
  ELSE LET ptr == h.proxies[p].ptr
       IN Returns(Called(h, "zeroperl_to_bool", ptr), JBool(TruthForm(h.heap[ptr])))

PerlValue_isRef(h, p) ==
  IF ~checkDisposed(h, p) THEN Throws(h, DisposedMessage(h, p))
  ELSE LET ptr == h.proxies[p].ptr
       IN Returns(Called(h, "zeroperl_is_ref", ptr), JBool(h.heap[ptr].t = T_REF))

PerlValue_createRef(h, p) ==
  IF ~checkDisposed(h, p) THEN Throws(h, DisposedMessage(h, p))
  ELSE LET ptr == h.proxies[p].ptr
           a == Alloc(h, "zeroperl_new_ref", GV(T_REF, ptr, "", << >>, << >>))
           n == NewProxy(a.h, "PerlValue", a.ptr)
       IN Returns(n.h, JProxy(n.p))

PerlValue_deref(h, p) ==
  IF ~checkDisposed(h, p) THEN Throws(h, DisposedMessage(h, p))
  ELSE LET ptr == h.proxies[p].ptr
           h1 == Called(h, "zeroperl_deref", ptr)
       IN IF h.heap[ptr].t # T_REF THEN Throws(h1, "Failed to dereference value")
          ELSE LET n == NewProxy(h1, "PerlValue", h.heap[ptr].n)
               IN Returns(n.h, JProxy(n.p))

PerlValue_incref(h, p) ==
  IF ~checkDisposed(h, p) THEN Throws(h, DisposedMessage(h, p))
  ELSE Returns(Called(h, "zeroperl_incref", h.proxies[p].ptr), JUndefined)

PerlValue_decref(h, p) ==
  IF ~checkDisposed(h, p) THEN Throws(h, DisposedMessage(h, p))
  ELSE Returns(Called(h, "zeroperl_decref", h.proxies[p].ptr), JUndefined)

\* the guest export that frees the handle of a proxy of class cls
FreeExport(cls) ==
  CASE cls = "PerlValue" -> "zeroperl_value_free"
    [] cls = "PerlArray" -> "zeroperl_array_free"
    [] cls = "PerlHash" -> "zeroperl_hash_free"

\* dispose() of the three proxy classes (the synchronous API):
\*   if (this.disposed) return; this.exports.<free>(this.ptr); this.disposed = true
dispose(h, p) ==
  IF h.proxies[p].disposed THEN Returns(h, JUndefined)
  ELSE Returns([Called(h, FreeExport(h.proxies[p].cls), h.proxies[p].ptr)
                  EXCEPT !.proxies[p].frees = @ + 1,
                         !.proxies[p].disposed = TRUE], JUndefined)

\* async dispose() of the three proxy classes (the asynchronous API), up to
\* its await:  if (this.disposed) return; await this.exports.<free>(this.ptr)
disposeAsync(h, p) ==
  IF h.proxies[p].disposed THEN Returns(h, JUndefined)
  ELSE Returns([Called(h, FreeExport(h.proxies[p].cls), h.proxies[p].ptr)
                  EXCEPT !.proxies[p].frees = @ + 1,
                         !.proxies[p].pending = @ + 1], JUndefined)

\* ... and after the await:  this.disposed = true
disposeAsyncResume(h, p) ==
  Returns([h EXCEPT !.proxies[p].disposed = TRUE,
                    !.proxies[p].pending = @ - 1], JUndefined)

\* the methods of PerlValue other than dispose
PerlValueMethods ==
  { "getPtr", "toInt", "toDouble", "toString", "toBoolean", "isUndef", "isRef",
    "getType", "project", "createRef", "deref", "incref", "decref" }

PerlValue_call(h, p, m) ==
  CASE m = "getPtr" -> PerlValue_getPtr(h, p)
    [] m = "toInt" -> PerlValue_toInt(h, p)
    [] m = "toDouble" -> PerlValue_toDouble(h, p)
    [] m = "toString" -> PerlValue_toString(h, p)
    [] m = "toBoolean" -> PerlValue_toBoolean(h, p)
    [] m = "isUndef" -> PerlValue_isUndef(h, p)
    [] m = "isRef" -> PerlValue_isRef(h, p)
    [] m = "getType" -> PerlValue_getType(h, p)
    [] m = "project" -> PerlValue_project(h, p)
    [] m = "createRef" -> PerlValue_createRef(h, p)
    [] m = "deref" -> PerlValue_deref(h, p)
    [] m = "incref" -> PerlValue_incref(h, p)
    [] m = "decref" -> PerlValue_decref(h, p)

\* `const x = e; ...`: the rest of a method, given the value of e
Bind(x, Rest(_)) == Rest(x)

\* ---- class ZeroPerl: value creation
DisposedInstance == "ZeroPerl instance has been disposed"

\* ZeroPerl.checkDisposed(): TRUE when it does not throw
ZeroPerl_checkDisposed(h) == ~h.isDisposed

\* the tail shared by the create* methods: the guest constructor `name`
\* returns the handle of gv, which is wrapped in a new PerlValue
CreateScalar(h, name, gv) ==
  LET a == Alloc(h, name, gv)
      n == NewProxy(a.h, "PerlValue", a.ptr)
  IN Returns(n.h, JProxy(n.p))

createInt(h, n) ==
  IF ~ZeroPerl_checkDisposed(h) THEN Throws(h, DisposedInstance)
  ELSE CreateScalar(h, "zeroperl_new_int", GV(T_INT, MathFloor(n), "", << >>, << >>))

createDouble(h, n) ==
  IF ~ZeroPerl_checkDisposed(h) THEN Throws(h, DisposedInstance)
  ELSE CreateScalar(h, "zeroperl_new_double", GV(T_DOUBLE, n, "", << >>, << >>))

createString(h, s) ==
  IF ~ZeroPerl_checkDisposed(h) THEN Throws(h, DisposedInstance)
  ELSE LET r == CreateScalar(Called(h, "malloc", 0), "zeroperl_new_string",
                             GV(T_STRING, 0, s, << >>, << >>))
       IN Returns(Called(r.h, "free", 0), r.ret)

createBool(h, b) ==
  IF ~ZeroPerl_checkDisposed(h) THEN Throws(h, DisposedInstance)
  ELSE CreateScalar(h, "zeroperl_new_bool",
                    GV(IF b THEN T_TRUE ELSE T_FALSE, 0, "", << >>, << >>))

createUndef(h) ==
  IF ~ZeroPerl_checkDisposed(h) THEN Throws(h, DisposedInstance)
  ELSE CreateScalar(h, "zeroperl_new_undef", GV(T_UNDEF, 0, "", << >>, << >>))

\* ---- toPerlValue, createArray, createHash and the aggregates' setters call
\* one another
ConversionError(k) == "Cannot convert value of type " \o k \o " to PerlValue"

RECURSIVE toPerlValue(_, _)
RECURSIVE createArray(_, _, _)
RECURSIVE createHash(_, _, _, _)
RECURSIVE PerlArray_push(_, _, _)
RECURSIVE PerlHash_set(_, _, _, _)
RECURSIVE PushAll(_, _, _, _)
RECURSIVE SetAll(_, _, _, _, _)

\* toValue() of PerlArray and PerlHash: a reference scalar to the aggregate
Aggregate_toValue(h, p) ==
  IF ~checkDisposed(h, p) THEN Throws(h, DisposedMessage(h, p))
  ELSE LET ptr == h.proxies[p].ptr
           name == IF h.proxies[p].cls = "PerlArray" THEN "zeroperl_array_to_value"
                   ELSE "zeroperl_hash_to_value"
           a == Alloc(h, name, GV(T_REF, ptr, "", << >>, << >>))
           n == NewProxy(a.h, "PerlValue", a.ptr)
       IN Returns(n.h, JProxy(n.p))

\* the `finally` of push / set / setVariable:
\*   if (!(value instanceof PerlValue)) perlValue.dispose()
DisposeTemporary(h, v, t) ==
  IF v.k = "PerlValue" THEN h ELSE dispose(h, t.n).h

PerlArray_push(h, p, v) ==
  IF ~checkDisposed(h, p) THEN Throws(h, DisposedMessage(h, p))
  ELSE Bind(toPerlValue(h, v), LAMBDA c :
       IF c.threw THEN c
       ELSE Bind(PerlValue_getPtr(c.h, c.ret.n), LAMBDA g :
            IF g.threw THEN [g EXCEPT !.h = DisposeTemporary(g.h, v, c.ret)]
            ELSE Returns(DisposeTemporary(
                   [Called(g.h, "zeroperl_array_push", h.proxies[p].ptr)
                      EXCEPT !.heap[h.proxies[p].ptr].xs = Append(@, g.ret.n)],
                   v, c.ret), JUndefined)))

PushAll(h, p, xs, i) ==
  IF i > Len(xs) THEN Returns(h, JUndefined)
  ELSE Bind(PerlArray_push(h, p, xs[i]), LAMBDA r :
       IF r.threw THEN r ELSE PushAll(r.h, p, xs, i + 1))

\* createArray(values): given says whether values was passed
createArray(h, given, xs) ==
  IF ~ZeroPerl_checkDisposed(h) THEN Throws(h, DisposedInstance)
  ELSE LET a == Alloc(h, "zeroperl_new_array", GV(T_ARRAY, 0, "", << >>, << >>))
           n == NewProxy(a.h, "PerlArray", a.ptr)
       IN Bind(IF given THEN PushAll(n.h, n.p, xs, 1) ELSE Returns(n.h, JUndefined),
               LAMBDA r : IF r.threw THEN r ELSE Returns(r.h, JProxy(n.p)))


\* the guest's zeroperl_hash_set: the value handle is stored under the key
HashStore(gv, key, ptr) ==
  IF \E i \in 1..Len(gv.ks) : gv.ks[i] = key
  THEN [gv EXCEPT !.xs = [i \in 1..Len(gv.xs) |->
                            IF gv.ks[i] = key THEN ptr ELSE gv.xs[i]]]
  ELSE [gv EXCEPT !.ks = Append(@, key), !.xs = Append(@, ptr)]

PerlHash_set(h, p, key, v) ==
  IF ~checkDisposed(h, p) THEN Throws(h, DisposedMessage(h, p))
  ELSE Bind(toPerlValue(h, v), LAMBDA c :
       IF c.threw THEN c
       ELSE Bind(PerlValue_getPtr(Called(c.h, "malloc", 0), c.ret.n), LAMBDA g :
            IF g.threw
            THEN [g EXCEPT !.h = DisposeTemporary(Called(g.h, "free", 0), v, c.ret)]
            ELSE Returns(DisposeTemporary(
                   Called([Called(g.h, "zeroperl_hash_set", h.proxies[p].ptr)
                             EXCEPT !.heap[h.proxies[p].ptr] =
                                      HashStore(@, key, g.ret.n)],
                          "free", 0), v, c.ret), JUndefined)))

SetAll(h, p, ks, xs, i) ==
  IF i > Len(ks) THEN Returns(h, JUndefined)
  ELSE Bind(PerlHash_set(h, p, ks[i], xs[i]), LAMBDA r :
       IF r.threw THEN r ELSE SetAll(r.h, p, ks, xs, i + 1))

\* createHash(object): given says whether object was passed
createHash(h, given, ks, xs) ==
  IF ~ZeroPerl_checkDisposed(h) THEN Throws(h, DisposedInstance)
  ELSE LET a == Alloc(h, "zeroperl_new_hash", GV(T_HASH, 0, "", << >>, << >>))
           n == NewProxy(a.h, "PerlHash", a.ptr)
       IN Bind(IF given THEN SetAll(n.h, n.p, ks, xs, 1) ELSE Returns(n.h, JUndefined),
               LAMBDA r : IF r.threw THEN r ELSE Returns(r.h, JProxy(n.p)))

\* the tail of the array and object rules of toPerlValue:
\*   const val = arr.toValue(); arr.dispose(); return val;
ReferenceTo(c) ==
  IF c.threw THEN c
  ELSE Bind(Aggregate_toValue(c.h, c.ret.n), LAMBDA v :
       IF v.threw THEN v ELSE Returns(dispose(v.h, c.ret.n).h, v.ret))

toPerlValue(h, v) ==
  CASE v.k = "PerlValue" -> Returns(h, v)
    [] v.k \in {"null", "undefined"} -> createUndef(h)
    [] v.k = "boolean" -> createBool(h, v.b)
    [] v.k = "number" ->
         IF NumberIsInteger(v.n) THEN createInt(h, v.n) ELSE createDouble(h, v.n)
    [] v.k = "string" -> createString(h, v.s)
    [] v.k = "array" -> ReferenceTo(createArray(h, TRUE, v.xs))
    [] v.k = "object" -> ReferenceTo(createHash(h, TRUE, v.ks, v.xs))
    [] OTHER -> Throws(h, ConversionError(v.k))


\* ---- class PerlArray (indices are plain naturals)
\* valPtr === 0 ? null : new PerlValue(valPtr, this.exports)
WrapOrNull(h, ptr) ==
  IF ptr = 0 THEN Returns(h, JNull)
  ELSE LET n == NewProxy(h, "PerlValue", ptr) IN Returns(n.h, JProxy(n.p))

PerlArray_getPtr(h, p) ==
  IF ~checkDisposed(h, p) THEN Throws(h, DisposedMessage(h, p))
  ELSE Returns(h, JNum(h.proxies[p].ptr))

PerlArray_pop(h, p) ==
  IF ~checkDisposed(h, p) THEN Throws(h, DisposedMessage(h, p))
  ELSE LET ptr == h.proxies[p].ptr
           xs == h.heap[ptr].xs
           h1 == Called(h, "zeroperl_array_pop", ptr)
       IN IF xs = << >> THEN WrapOrNull(h1, 0)
          ELSE WrapOrNull([h1 EXCEPT !.heap[ptr].xs = SubSeq(xs, 1, Len(xs) - 1)],
                          xs[Len(xs)])

PerlArray_get(h, p, index) ==
  IF ~checkDisposed(h, p) THEN Throws(h, DisposedMessage(h, p))
  ELSE LET ptr == h.proxies[p].ptr
           xs == h.heap[ptr].xs
       IN WrapOrNull(Called(h, "zeroperl_array_get", ptr),
                     IF index < Len(xs) THEN xs[index + 1] ELSE 0)

PerlArray_set(h, p, index, v) ==
  IF ~checkDisposed(h, p) THEN Throws(h, DisposedMessage(h, p))
  ELSE Bind(toPerlValue(h, v), LAMBDA c :
       IF c.threw THEN c
       ELSE Bind(PerlValue_getPtr(c.h, c.ret.n), LAMBDA g :
            IF g.threw THEN [g EXCEPT !.h = DisposeTemporary(g.h, v, c.ret)]
            ELSE Bind(Called(g.h, "zeroperl_array_set", h.proxies[p].ptr), LAMBDA h1 :
                 IF index > Len(h1.heap[h.proxies[p].ptr].xs)
                 THEN Throws(DisposeTemporary(h1, v, c.ret),
                             "Failed to set array element")
                 ELSE Returns(DisposeTemporary(
                        [h1 EXCEPT !.heap[h.proxies[p].ptr].xs =
                           IF index = Len(@) THEN Append(@, g.ret.n)
                           ELSE [@ EXCEPT ![index + 1] = g.ret.n]],
                        v, c.ret), JUndefined))))

PerlArray_getLength(h, p) ==
  IF ~checkDisposed(h, p) THEN Throws(h, DisposedMessage(h, p))
  ELSE Returns(Called(h, "zeroperl_array_length", h.proxies[p].ptr),
               JNum(Len(h.heap[h.proxies[p].ptr].xs)))

PerlArray_clear(h, p) ==
  IF ~checkDisposed(h, p) THEN Throws(h, DisposedMessage(h, p))
  ELSE Returns([Called(h, "zeroperl_array_clear", h.proxies[p].ptr)
                  EXCEPT !.heap[h.proxies[p].ptr].xs = << >>], JUndefined)

\* the loop of PerlArray.project(): get(i), project(), dispose()
RECURSIVE ProjectElements(_, _, _, _, _)
ProjectElements(h, p, len, i, acc) ==
  IF i >= len THEN Returns(h, JArr(acc))
  ELSE Bind(PerlArray_get(h, p, i), LAMBDA e :
       IF e.ret.k = "null" THEN ProjectElements(e.h, p, len, i + 1, Append(acc, JNull))
       ELSE Bind(PerlValue_project(e.h, e.ret.n), LAMBDA v :
            ProjectElements(dispose(v.h, e.ret.n).h, p, len, i + 1,
                            Append(acc, v.ret))))

PerlArray_project(h, p) ==
  IF ~checkDisposed(h, p) THEN Throws(h, DisposedMessage(h, p))
  ELSE Bind(PerlArray_getLength(h, p), LAMBDA len :
       ProjectElements(len.h, p, len.ret.n, 0, << >>))

\* the loop of *[Symbol.iterator](), run to its end: the proxies it yields
RECURSIVE IterateElements(_, _, _, _, _)
IterateElements(h, p, len, i, acc) ==
  IF i >= len THEN Returns(h, JArr(acc))
  ELSE Bind(PerlArray_get(h, p, i), LAMBDA e :
       IterateElements(e.h, p, len, i + 1,
                       IF e.ret.k = "null" THEN acc ELSE Append(acc, e.ret)))

PerlArray_iterate(h, p) ==
  Bind(PerlArray_getLength(h, p), LAMBDA len :
    IF len.threw THEN len ELSE IterateElements(len.h, p, len.ret.n, 0, << >>))

\* static fromValue(value, perl) of PerlArray (cls = "PerlArray") and of
\* PerlHash (cls = "PerlHash"), p the proxy of value
Aggregate_fromValue(h, p, cls) ==
  LET g == PerlValue_getPtr(h, p) IN
  IF g.threw THEN g
  ELSE LET gv == h.heap[g.ret.n]
           name == IF cls = "PerlArray" THEN "zeroperl_value_to_array"
                   ELSE "zeroperl_value_to_hash"
           want == IF cls = "PerlArray" THEN T_ARRAY ELSE T_HASH
           h1 == Called(g.h, name, g.ret.n)
       IN IF gv.t = T_REF /\ h.heap[gv.n].t = want
          THEN LET n == NewProxy(h1, cls, gv.n) IN Returns(n.h, JProxy(n.p))
          ELSE Returns(h1, JNull)

PerlArrayMethods ==
  { "getPtr", "push", "pop", "get", "set", "getLength", "clear", "toValue",
    "project", "iterate" }

\* a call of method m with index i and value v where the method takes them
PerlArray_call(h, p, m, i, v) ==
  CASE m = "getPtr" -> PerlArray_getPtr(h, p)
    [] m = "push" -> PerlArray_push(h, p, v)
    [] m = "pop" -> PerlArray_pop(h, p)
    [] m = "get" -> PerlArray_get(h, p, i)
    [] m = "set" -> PerlArray_set(h, p, i, v)
    [] m = "getLength" -> PerlArray_getLength(h, p)
    [] m = "clear" -> PerlArray_clear(h, p)
    [] m = "toValue" -> Aggregate_toValue(h, p)
    [] m = "project" -> PerlArray_project(h, p)
    [] m = "iterate" -> PerlArray_iterate(h, p)


\* ---- class PerlHash
\* the handle stored under key, 0 when there is none
HashLookup(gv, key) ==
  IF \E i \in 1..Len(gv.ks) : gv.ks[i] = key
  THEN gv.xs[CHOOSE i \in 1..Len(gv.ks) : gv.ks[i] = key]
  ELSE 0

\* the hash without key
HashRemove(gv, key) ==
  LET keep == { i \in 1..Len(gv.ks) : gv.ks[i] # key }
      F[i \in 0..Len(gv.ks)] ==
        IF i = 0 THEN [ks |-> << >>, xs |-> << >>]
        ELSE IF i \in keep
             THEN [ks |-> Append(F[i - 1].ks, gv.ks[i]),
                   xs |-> Append(F[i - 1].xs, gv.xs[i])]
             ELSE F[i - 1]
  IN [gv EXCEPT !.ks = F[Len(gv.ks)].ks, !.xs = F[Len(gv.ks)].xs]

PerlHash_getPtr(h, p) ==
  IF ~checkDisposed(h, p) THEN Throws(h, DisposedMessage(h, p))
  ELSE Returns(h, JNum(h.proxies[p].ptr))

PerlHash_get(h, p, key) ==
  IF ~checkDisposed(h, p) THEN Throws(h, DisposedMessage(h, p))
  ELSE LET ptr == h.proxies[p].ptr
           h1 == Called(Called(h, "malloc", 0), "zeroperl_hash_get", ptr)
           r == WrapOrNull(h1, HashLookup(h.heap[ptr], key))
       IN [r EXCEPT !.h = Called(r.h, "free", 0)]

PerlHash_has(h, p, key) ==
  IF ~checkDisposed(h, p) THEN Throws(h, DisposedMessage(h, p))
  ELSE LET ptr == h.proxies[p].ptr
           h1 == Called(Called(h, "malloc", 0), "zeroperl_hash_exists", ptr)
       IN Returns(Called(h1, "free", 0), JBool(HashLookup(h.heap[ptr], key) # 0))

PerlHash_delete(h, p, key) ==
  IF ~checkDisposed(h, p) THEN Throws(h, DisposedMessage(h, p))
  ELSE LET ptr == h.proxies[p].ptr
           h1 == Called(Called(h, "malloc", 0), "zeroperl_hash_delete", ptr)
           h2 == [h1 EXCEPT !.heap[ptr] = HashRemove(@, key)]
       IN Returns(Called(h2, "free", 0), JBool(HashLookup(h.heap[ptr], key) # 0))

PerlHash_clear(h, p) ==
  IF ~checkDisposed(h, p) THEN Throws(h, DisposedMessage(h, p))
  ELSE Returns([Called(h, "zeroperl_hash_clear", h.proxies[p].ptr)
                  EXCEPT !.heap[h.proxies[p].ptr].ks = << >>,
                         !.heap[h.proxies[p].ptr].xs = << >>], JUndefined)

\* the loop of *entries(), run to its end: one new PerlValue per entry
RECURSIVE IterNext(_, _, _, _)
IterNext(h, gv, i, acc) ==
  LET h1 == Called(h, "zeroperl_hash_iter_next", 0) IN
  IF i > Len(gv.ks) THEN Returns(h1, JObj(gv.ks, acc))
  ELSE LET n == NewProxy(h1, "PerlValue", gv.xs[i])
       IN IterNext(n.h, gv, i + 1, Append(acc, JProxy(n.p)))

PerlHash_entries(h, p) ==
  IF ~checkDisposed(h, p) THEN Throws(h, DisposedMessage(h, p))
  ELSE LET ptr == h.proxies[p].ptr
           h1 == Called(Called(Called(h, "zeroperl_hash_iter_new", ptr),
                               "malloc", 0), "malloc", 0)
           r == IterNext(h1, h.heap[ptr], 1, << >>)
       IN [r EXCEPT !.h = Called(Called(Called(r.h, "free", 0), "free", 0),
                                 "zeroperl_hash_iter_free", 0)]

RECURSIVE DisposeAll(_, _, _)
DisposeAll(h, xs, i) ==
  IF i > Len(xs) THEN h ELSE DisposeAll(dispose(h, xs[i].n).h, xs, i + 1)

\* *keys(): every entry's value is disposed, the keys are yielded
PerlHash_keys(h, p) ==
  Bind(PerlHash_entries(h, p), LAMBDA e :
    IF e.threw THEN e
    ELSE Returns(DisposeAll(e.h, e.ret.xs, 1),
                 JArr([i \in 1..Len(e.ret.ks) |-> JStr(e.ret.ks[i])])))

\* *values()
PerlHash_values(h, p) ==
  Bind(PerlHash_entries(h, p), LAMBDA e :
    IF e.threw THEN e ELSE Returns(e.h, JArr(e.ret.xs)))

\* the loop of PerlHash.project(): val.project(), val.dispose()
RECURSIVE ProjectEntries(_, _, _, _)
ProjectEntries(h, e, i, acc) ==
  IF i > Len(e.ks) THEN Returns(h, JObj(e.ks, acc))
  ELSE Bind(PerlValue_project(h, e.xs[i].n), LAMBDA v :
       ProjectEntries(dispose(v.h, e.xs[i].n).h, e, i + 1, Append(acc, v.ret)))

PerlHash_project(h, p) ==
  IF ~checkDisposed(h, p) THEN Throws(h, DisposedMessage(h, p))
  ELSE Bind(PerlHash_entries(h, p), LAMBDA e : ProjectEntries(e.h, e.ret, 1, << >>))

PerlHashMethods ==
  { "getPtr", "set", "get", "has", "delete", "clear", "toValue", "project",
    "entries", "keys", "values" }

\* a call of method m with key and value v where the method takes them
PerlHash_call(h, p, m, key, v) ==
  CASE m = "getPtr" -> PerlHash_getPtr(h, p)
    [] m = "set" -> PerlHash_set(h, p, key, v)
    [] m = "get" -> PerlHash_get(h, p, key)
    [] m = "has" -> PerlHash_has(h, p, key)
    [] m = "delete" -> PerlHash_delete(h, p, key)
    [] m = "clear" -> PerlHash_clear(h, p)
    [] m = "toValue" -> Aggregate_toValue(h, p)
    [] m = "project" -> PerlHash_project(h, p)
    [] m = "entries" -> PerlHash_entries(h, p)
    [] m = "keys" -> PerlHash_keys(h, p)
    [] m = "values" -> PerlHash_values(h, p)


\* ---- class ZeroPerl: variables, the host function table, dispatch
\* private writeCString(str) of ZeroPerl: 0 for the empty string, else a
\* buffer from malloc; the result says whether a buffer was allocated
writeCString(h, str) ==
  IF str = "" THEN [h |-> h, ptr |-> FALSE]
  ELSE [h |-> Called(h, "malloc", 0), ptr |-> TRUE]

getVariable(h, name) ==
  IF ~ZeroPerl_checkDisposed(h) THEN Throws(h, DisposedInstance)
  ELSE LET w == writeCString(h, name)
           r == WrapOrNull(Called(w.h, "zeroperl_get_var", 0),
                           HashLookup(h.perlVars, name))
       IN [r EXCEPT !.h = Called(r.h, "free", 0)]

setVariable(h, name, v) ==
  IF ~ZeroPerl_checkDisposed(h) THEN Throws(h, DisposedInstance)
  ELSE Bind(toPerlValue(h, v), LAMBDA c :
       IF c.threw THEN c
       ELSE Bind(PerlValue_getPtr(writeCString(c.h, name).h, c.ret.n), LAMBDA g :
            IF g.threw
            THEN [g EXCEPT !.h = DisposeTemporary(Called(g.h, "free", 0), v, c.ret)]
            ELSE Returns(DisposeTemporary(
                   Called([Called(g.h, "zeroperl_set_var", g.ret.n)
                             EXCEPT !.perlVars = HashStore(@, name, g.ret.n)],
                          "free", 0), v, c.ret), JUndefined)))

\* hostFunctions.set(funcId, fn)
MapSet(m, k, x) == [i \in DOMAIN m \cup {k} |-> IF i = k THEN x ELSE m[i]]

\* a registerFunction that does not advance the counter
registerFunction_SameId(h, name, fn) ==
  IF ~ZeroPerl_checkDisposed(h) THEN Throws(h, DisposedInstance)
  ELSE LET funcId == h.nextFuncId
           h1 == [h EXCEPT !.hostFunctions = MapSet(@, 1, fn)]
           w == writeCString(h1, name)
       IN Returns(Called(Called(w.h, "zeroperl_register_function", funcId), "free", 0),
                  JUndefined)

\* registerFunction(name, fn)
registerFunction(h, name, fn) ==
  IF ~ZeroPerl_checkDisposed(h) THEN Throws(h, DisposedInstance)
  ELSE LET funcId == h.nextFuncId
           h1 == [h EXCEPT !.nextFuncId = @ + 1,
                           !.hostFunctions = MapSet(@, funcId, fn)]
           w == writeCString(h1, name)
       IN Returns(Called(Called(w.h, "zeroperl_register_function", funcId), "free", 0),
                  JUndefined)

\* registerMethod(packageName, methodName, fn)
registerMethod(h, packageName, methodName, fn) ==
  IF ~ZeroPerl_checkDisposed(h) THEN Throws(h, DisposedInstance)
  ELSE LET funcId == h.nextFuncId
           h1 == [h EXCEPT !.nextFuncId = @ + 1,
                           !.hostFunctions = MapSet(@, funcId, fn)]
           w == writeCString(writeCString(h1, packageName).h, methodName)
       IN Returns(Called(Called(Called(w.h, "zeroperl_register_method", funcId),
                                "free", 0), "free", 0), JUndefined)

\* private setHostError(message)
setHostError(h, message) ==
  LET w == writeCString(h, message) IN
  IF w.ptr
  THEN Called([Called(w.h, "zeroperl_set_host_error", 0) EXCEPT !.hostError = message],
              "free", 0)
  ELSE w.h


\* A registered callback is user code: fn.tag names the function object,
\* fn.does what it does when called, fn.msg the message it throws with.
CallbackRun(h, fn, args) ==
  CASE fn.does = "returnsArg" ->
         Returns(h, IF args = << >> THEN JUndefined ELSE args[1])
    [] fn.does = "returnsDisposed" ->
         IF args = << >> THEN Returns(h, JUndefined)
         ELSE Returns(dispose(h, args[1].n).h, args[1])
    [] fn.does = "returnsNothing" -> Returns(h, JUndefined)
    [] fn.does = "returnsNumber" -> Returns(h, JNum(84))
    [] fn.does = "throws" -> Throws(h, fn.msg)

\* the argument loop of handleHostCall: a PerlValue for every non-null handle
RECURSIVE WrapArgs(_, _, _, _)
WrapArgs(h, argv, i, acc) ==
  IF i > Len(argv) THEN [h |-> h, args |-> acc]
  ELSE IF argv[i] = 0 THEN WrapArgs(h, argv, i + 1, acc)
       ELSE LET n == NewProxy(h, "PerlValue", argv[i])
            IN WrapArgs(n.h, argv, i + 1, Append(acc, JProxy(n.p)))

NotFoundMessage(funcId) == "Host function " \o ToString(funcId) \o " not found"

\* a handleHostCall that answers with a fresh undef whatever the callback
\* returned
handleHostCall_AlwaysUndef(h, funcId, argv) ==
  IF funcId \notin DOMAIN h.hostFunctions
  THEN Returns(setHostError(h, NotFoundMessage(funcId)), JNum(0))
  ELSE Bind(WrapArgs(h, argv, 1, << >>), LAMBDA a :
       Bind(CallbackRun([a.h EXCEPT !.invoked = Append(@, h.hostFunctions[funcId])],
                        h.hostFunctions[funcId], a.args), LAMBDA c :
       IF c.threw THEN Returns(setHostError(c.h, c.msg), JNum(0))
       ELSE Bind(Alloc(c.h, "zeroperl_new_undef",
                       GV(T_UNDEF, 0, "", << >>, << >>)), LAMBDA u :
            Returns(u.h, JNum(u.ptr)))))

\* private handleHostCall(funcId, argc, argvPtr); argv is the handle array
\* the guest wrote at argvPtr, ret the handle returned to the guest
handleHostCall(h, funcId, argv) ==
  IF funcId \notin DOMAIN h.hostFunctions
  THEN Returns(setHostError(h, NotFoundMessage(funcId)), JNum(0))
  ELSE Bind(WrapArgs(h, argv, 1, << >>), LAMBDA a :
       Bind(CallbackRun([a.h EXCEPT !.invoked = Append(@, h.hostFunctions[funcId])],
                        h.hostFunctions[funcId], a.args), LAMBDA c :
       IF c.threw THEN Returns(setHostError(c.h, c.msg), JNum(0))
       ELSE IF c.ret.k = "PerlValue"
            THEN Bind(PerlValue_getPtr(c.h, c.ret.n), LAMBDA g :
                 IF g.threw THEN Returns(setHostError(g.h, g.msg), JNum(0))
                 ELSE g)
            ELSE Bind(Alloc(c.h, "zeroperl_new_undef",
                            GV(T_UNDEF, 0, "", << >>, << >>)), LAMBDA u :
                 Returns(u.h, JNum(u.ptr)))))

\* ---- class ZeroPerl: running code and the life cycle
\* eval, runFile, call and reset await a wrapped export: each is modelled in
\* two segments, up to its await and from it.  What the awaited export does
\* to the promise it returned:
\*   kind "value": it resolves to a number: n (an exit code), or for
\*                 zeroperl_call a pointer, 0 unless block;
\*   kind "exit":  it rejects with WASIProcExit(n), thrown by the proc_exit
\*                 import while the guest ran;
\*   kind "error": it rejects with the bridge's 'Invalid async state'.
\* error is the text of $@ the guest leaves.  results is the result block of
\* zeroperl_call, in guest order: TRUE for a value the guest made, FALSE for
\* a null entry; values says that the block's pointer to its array is not 0.
Outcome(kind, n, error, block, values, results) ==
  [kind |-> kind, n |-> n, error |-> error, block |-> block, values |-> values,
   results |-> results]

\* where the guest places a result block and its array of handles
ResultAddr == [block |-> 1, values |-> 2]

\* the number of values the guest made among the first i entries
Made(results, i) == Cardinality({ j \in 1..i : results[j] })

\* the guest has run: $@ is set and the values of the result block exist
GuestRan(h, out) ==
  [h EXCEPT !.lastError = out.error,
            !.heap = @ \o [i \in 1..Made(out.results, Len(out.results)) |->
                             GV(T_INT, 2 * i, "", << >>, << >>)]]

\* zeroperl_result_get(resultPtr, i - 1) once the guest has run
ResultHandle(h, out, i) ==
  IF out.results[i]
  THEN Len(h.heap) - Made(out.results, Len(out.results)) + Made(out.results, i)
  ELSE 0

\* a call at its await: the operation, the context, whether the string's
\* pointer and argv are not 0, and the buffers of the string arguments
Run(op, context, ptr, argv, buffers) ==
  [op |-> op, context |-> context, ptr |-> ptr, argv |-> argv, buffers |-> buffers]

NoRun == Run("", "", FALSE, FALSE, << >>)

\* a first segment that reached its await, and one that threw
Started(h, run) ==
  [h |-> h, threw |-> FALSE, msg |-> "", ret |-> JUndefined, run |-> run]
Failed(h, msg) ==
  [h |-> h, threw |-> TRUE, msg |-> msg, ret |-> JUndefined, run |-> NoRun]

UndefinedArgument(i) == "Argument at index " \o ToString(i) \o " is undefined"

\* private writeStringArray(args): the loop from the i-th argument on
RECURSIVE WriteStrings(_, _, _, _)
WriteStrings(h, args, i, buffers) ==
  IF i > Len(args)
  THEN [h |-> h, threw |-> FALSE, msg |-> "", buffers |-> buffers]
  ELSE IF args[i].k = "undefined"
  THEN [h |-> h, threw |-> TRUE, msg |-> UndefinedArgument(i - 1),
        buffers |-> buffers]
  ELSE Bind(writeCString(h, args[i].s), LAMBDA w :
       WriteStrings(w.h, args, i + 1, Append(buffers, w.ptr)))

writeStringArray(h, args) == WriteStrings(Called(h, "malloc", 0), args, 1, << >>)

\* n calls of free
RECURSIVE Frees(_, _)
Frees(h, n) == IF n = 0 THEN h ELSE Frees(Called(h, "free", 0), n - 1)

\* private freeStringArray(argv, buffers)
freeStringArray(h, buffers) == Frees(h, Len(buffers) + 1)

\* the export eval, runFile, call and reset await
ExportOf(op) ==
  CASE op = "eval" -> "zeroperl_eval"
    [] op = "runFile" -> "zeroperl_run_file"
    [] op = "call" -> "zeroperl_call"
    [] op = "reset" -> "zeroperl_reset"

\* getLastError(): readCString(zeroperl_last_error())
getLastError(h) ==
  IF ~ZeroPerl_checkDisposed(h) THEN Throws(h, DisposedInstance)
  ELSE Returns(Called(h, "zeroperl_last_error", 0), JStr(h.lastError))

\* interface ZeroPerlResult: { success, exitCode } and { success, error, exitCode }
Success == JV("result", TRUE, 0, "", << >>, << "success", "exitCode" >>)
Failure(exitCode, error) ==
  JV("result", FALSE, exitCode, error, << >>, << "success", "error", "exitCode" >>)

\* a FailureResult that does not read $@
FailureResult_NoError(h, exitCode) == Returns(h, Failure(exitCode, ""))

\* return { success: false, error: this.getLastError(), exitCode }
FailureResult(h, exitCode) ==
  Bind(getLastError(h), LAMBDA e :
    IF e.threw THEN e ELSE Returns(e.h, Failure(exitCode, e.ret.s)))

\* eval(code, args) and runFile(scriptPath, args) up to their await
evalEnter(h, op, str, args) ==
  IF ~ZeroPerl_checkDisposed(h) THEN Failed(h, DisposedInstance)
  ELSE Bind(writeCString(h, str), LAMBDA w :
       IF Len(args) > 0
       THEN Bind(writeStringArray(w.h, args), LAMBDA a :
            IF a.threw THEN Failed(a.h, a.msg)
            ELSE Started(Called(a.h, ExportOf(op), 0),
                         Run(op, "scalar", w.ptr, TRUE, a.buffers)))
       ELSE Started(Called(w.h, ExportOf(op), 0),
                    Run(op, "scalar", w.ptr, FALSE, << >>)))

\* finally { free(codePtr); if (buffers.length > 0) freeStringArray(argv, buffers) }
evalFinally(h, run) ==
  IF Len(run.buffers) > 0
  THEN freeStringArray(Called(h, "free", 0), run.buffers)
  ELSE Called(h, "free", 0)

\* an evalSettle without the catch block
evalSettle_NoCatch(h, run, out) ==
  Bind(CASE out.kind = "value" ->
              IF out.n # 0 THEN FailureResult(h, out.n) ELSE Returns(h, Success)
         [] out.kind = "exit" -> Throws(h, "WASIProcExit")
         [] OTHER -> Throws(h, InvalidState),
       LAMBDA r : [r EXCEPT !.h = evalFinally(r.h, run)])

\* ... and from their await: the try block, the catch block, the finally block
evalSettle(h, run, out) ==
  Bind(CASE out.kind = "value" ->
              IF out.n # 0 THEN FailureResult(h, out.n) ELSE Returns(h, Success)
         [] out.kind = "exit" ->
              IF out.n # 0 THEN FailureResult(h, out.n) ELSE Returns(h, Success)
         [] OTHER -> Throws(h, InvalidState),
       LAMBDA r : [r EXCEPT !.h = evalFinally(r.h, run)])

\* the arguments of call(): the loop that writes their handles to argv
RECURSIVE WriteArgs(_, _, _)
WriteArgs(h, args, i) ==
  IF i > Len(args) THEN Returns(h, JUndefined)
  ELSE IF args[i].k # "PerlValue" THEN Throws(h, UndefinedArgument(i - 1))
  ELSE Bind(PerlValue_getPtr(h, args[i].n), LAMBDA g :
       IF g.threw THEN g ELSE WriteArgs(g.h, args, i + 1))

\* call(name, args, context) up to its await
callEnter(h, name, args, context) ==
  IF ~ZeroPerl_checkDisposed(h) THEN Failed(h, DisposedInstance)
  ELSE Bind(writeCString(h, name), LAMBDA w :
       IF Len(args) > 0
       THEN Bind(WriteArgs(Called(w.h, "malloc", 0), args, 1), LAMBDA a :
            IF a.threw THEN Failed(a.h, a.msg)
            ELSE Started(Called(a.h, ExportOf("call"), 0),
                         Run("call", context, w.ptr, TRUE, << >>)))
       ELSE Started(Called(w.h, ExportOf("call"), 0),
                    Run("call", context, w.ptr, FALSE, << >>)))

\* what call() returns when there is nothing to return
EmptyResult(context) ==
  CASE context = "void" -> JUndefined
    [] context = "scalar" -> JNull
    [] OTHER -> JArr(<< >>)

\* the loop over zeroperl_result_get from the i-th entry on
RECURSIVE Extract(_, _, _, _)
Extract(h, out, i, results) ==
  IF i > Len(out.results) THEN [h |-> h, results |-> results]
  ELSE IF ResultHandle(h, out, i) # 0
  THEN Bind(NewProxy(Called(h, "zeroperl_result_get", ResultAddr.block),
                     "PerlValue", ResultHandle(h, out, i)), LAMBDA n :
       Extract(n.h, out, i + 1, Append(results, JProxy(n.p))))
  ELSE Extract(Called(h, "zeroperl_result_get", ResultAddr.block), out, i + 1,
               results)

\* the block is freed ...
FreeBlock(h, out) ==
  Called(IF out.values THEN Called(h, "free", ResultAddr.values) ELSE h,
         "free", ResultAddr.block)

\* a ByContext that treats every context as 'list'
ByContext_ListOnly(h, context, results) == Returns(h, JArr(results))

\* ... and the results are handed out by context
ByContext(h, context, results) ==
  CASE context = "void" -> Returns(DisposeAll(h, results, 1), JUndefined)
    [] context = "scalar" ->
         Returns(h, IF results = << >> THEN JNull ELSE results[1])
    [] OTHER -> Returns(h, JArr(results))

\* finally { free(namePtr); if (argvPtr !== 0) free(argvPtr) }
callFinally(h, run) ==
  IF run.argv THEN Called(Called(h, "free", 0), "free", 0) ELSE Called(h, "free", 0)

\* ... and from its await
callSettle(h, run, out) ==
  Bind(CASE out.kind = "value" ->
              IF ~out.block THEN Returns(h, EmptyResult(run.context))
              ELSE Bind(Extract(h, out, 1, << >>), LAMBDA e :
                   ByContext(FreeBlock(e.h, out), run.context, e.results))
         [] out.kind = "exit" -> Returns(h, EmptyResult(run.context))
         [] OTHER -> Throws(h, InvalidState),
       LAMBDA r : [r EXCEPT !.h = callFinally(r.h, run)])

\* reset() up to its await
resetEnter(h) ==
  IF ~ZeroPerl_checkDisposed(h) THEN Failed(h, DisposedInstance)
  ELSE Started(Called(h, ExportOf("reset"), 0),
               Run("reset", "", FALSE, FALSE, << >>))

\* variant: reset() starts the host function table afresh
resetSettle_Forgets(h, run, out) ==
  Returns([h EXCEPT !.hostFunctions = << >>, !.nextFuncId = 1], JUndefined)

\* reset() from its await: a result other than 0 throws, with getLastError() read
\* for the error's third argument; an exception of the export is not caught
resetSettle(h, run, out) ==
  CASE out.kind = "value" ->
         IF out.n # 0
         THEN Bind(getLastError(h), LAMBDA e :
              IF e.threw THEN e
              ELSE Throws(e.h, "Failed to reset Perl interpreter"))
         ELSE Returns(h, JUndefined)
    [] out.kind = "exit" -> Throws(h, "WASIProcExit")
    [] OTHER -> Throws(h, InvalidState)

\* the guest runs to its end at once, with exit code 0 and nothing to return
RunsThrough == Outcome("value", 0, "", FALSE, FALSE, << >>)

\* a method from its call to its return when the export settles at once
AtOnce(e, Settle(_, _, _)) ==
  IF e.threw THEN Throws(e.h, e.msg)
  ELSE Settle(GuestRan(e.h, RunsThrough), e.run, RunsThrough)

\* an operation that checks and calls one export
PlainOp(h, name) ==
  IF ~ZeroPerl_checkDisposed(h) THEN Throws(h, DisposedInstance)
  ELSE Returns(Called(h, name, 0), JUndefined)

ZeroPerl_eval(h, code) == AtOnce(evalEnter(h, "eval", code, << >>), evalSettle)
ZeroPerl_runFile(h, scriptPath) ==
  AtOnce(evalEnter(h, "runFile", scriptPath, << >>), evalSettle)
ZeroPerl_call(h, name) == AtOnce(callEnter(h, name, << >>, "scalar"), callSettle)
ZeroPerl_reset(h) == AtOnce(resetEnter(h), resetSettle)
ZeroPerl_flush(h) == PlainOp(h, "zeroperl_flush")
clearError(h) == PlainOp(h, "zeroperl_clear_error")
isInitialized(h) == PlainOp(h, "zeroperl_is_initialized")
canEvaluate(h) == PlainOp(h, "zeroperl_can_evaluate")

\* dispose() (name = "zeroperl_free_interpreter") and shutdown()
\* (name = "zeroperl_shutdown") of ZeroPerl
ZeroPerl_dispose(h, name) ==
  IF h.isDisposed THEN Returns(h, JUndefined)
  ELSE Returns([Called(h, name, 0) EXCEPT !.isDisposed = TRUE,
                                         !.hostFunctions = << >>], JUndefined)


\* ------------------------------------------- the ZeroPerl layer as a machine
\* One step is one call of a public method of ZeroPerl or of a proxy by the
\* user, or one dispatch of a host function by the guest.
MaxProxies == 2
MaxFuncs == 2
MaxLen == 1
MaxHeap == 2

\* the values the user passes to push / set / setVariable / toPerlValue
UserValues ==
  { JNum(2), JFunction }
    \cup { JProxy(p) : p \in { q \in DOMAIN proxies : proxies[q].cls = "PerlValue" } }

UserKeys == { "k" }
UserIndices == { 0 }

\* the callbacks the user registers
UserCallbacks ==
  { [tag |-> "f", does |-> d, msg |-> ""] :
      d \in { "returnsArg", "returnsDisposed", "returnsNothing", "returnsNumber" } }
    \cup { [tag |-> "g", does |-> "returnsNothing", msg |-> ""] }
    \cup { [tag |-> "f", does |-> "throws", msg |-> m] : m \in { "boom", "" } }

\* what is remembered of the last step: the operation, the proxy and method
\* or operation name, whether the proxy or instance was disposed before it,
\* its argument, the guest heap's size before it, and the outcome
HLast(op, p, m, pre, arg, r) ==
  [op |-> op, p |-> p, m |-> m, pre |-> pre, arg |-> arg, heapLen |-> Len(heap),
   threw |-> r.threw, msg |-> r.msg, ret |-> r.ret, invoked |-> r.h.invoked]

\* the state an operation leaves becomes the state of the layer
Effects(r, l) ==
  /\ isDisposed' = r.h.isDisposed
  /\ hostFunctions' = r.h.hostFunctions
  /\ nextFuncId' = r.h.nextFuncId
  /\ proxies' = r.h.proxies
  /\ heap' = r.h.heap
  /\ perlVars' = r.h.perlVars
  /\ hostError' = r.h.hostError
  /\ xlog' = r.h.xlog
  /\ lastError' = r.h.lastError
  /\ hlast' = l

\* ... while the bridge is left alone
Update(r, l) == Effects(r, l) /\ UNCHANGED << api, vars >>

\* ... by an operation that starts and settles no eval / runFile / call / reset
Commit(r, l) == Update(r, l) /\ runs' = runs

\* a step: operation r was applied; op, p, m, pre, arg describe it
Step(op, p, m, pre, arg, r) == Commit(r, HLast(op, p, m, pre, arg, r))

\* the layer after ZeroPerl.create()
Created ==
  /\ unwrappedExports = AsyncifyConstructor(SYNC_EXPORTS)
  /\ BridgeIdle
  /\ isDisposed = FALSE
  /\ hostFunctions = << >>
  /\ nextFuncId = 1
  /\ proxies = << >>
  /\ heap = << >>
  /\ perlVars = [ks |-> << >>, xs |-> << >>]
  /\ hostError = ""
  /\ xlog = << >>
  /\ runs = << >>
  /\ lastError = ""
  /\ hlast = HLast("new", 0, "", FALSE, 0, Returns(Host, JUndefined))

Room == Len(proxies) < MaxProxies

\* the operations the proxies come from
CreateOperations == { "createInt", "createArray", "createHash" }

\* the public operations of ZeroPerl other than dispose() and shutdown()
ZeroPerlOperations ==
  { "eval", "runFile", "call", "reset", "flush", "createInt", "createDouble",
    "createString", "createBool", "createUndef", "createArray", "createHash",
    "toPerlValue", "getVariable", "setVariable", "registerFunction",
    "registerMethod", "getLastError", "clearError", "isInitialized",
    "canEvaluate" }

\* operation m of ZeroPerl with value v, name s and callback fn where it
\* takes them
ZeroPerl_operation(h, m, v, s, fn) ==
  CASE m = "eval" -> ZeroPerl_eval(h, s)
    [] m = "runFile" -> ZeroPerl_runFile(h, s)
    [] m = "call" -> ZeroPerl_call(h, s)
    [] m = "reset" -> ZeroPerl_reset(h)
    [] m = "flush" -> ZeroPerl_flush(h)
    [] m = "createInt" -> createInt(h, 2)
    [] m = "createDouble" -> createDouble(h, 3)
    [] m = "createString" -> createString(h, s)
    [] m = "createBool" -> createBool(h, TRUE)
    [] m = "createUndef" -> createUndef(h)
    [] m = "createArray" -> createArray(h, FALSE, << >>)
    [] m = "createHash" -> createHash(h, FALSE, << >>, << >>)
    [] m = "toPerlValue" -> toPerlValue(h, v)
    [] m = "getVariable" -> getVariable(h, s)
    [] m = "setVariable" -> setVariable(h, s, v)
    [] m = "registerFunction" -> registerFunction(h, s, fn)
    [] m = "registerMethod" -> registerMethod(h, "P", s, fn)
    [] m = "getLastError" -> getLastError(h)
    [] m = "clearError" -> clearError(h)
    [] m = "isInitialized" -> isInitialized(h)
    [] m = "canEvaluate" -> canEvaluate(h)

\* the user creates a scalar, an array or a hash
Create ==
  /\ Room
  /\ \E m \in CreateOperations :
       Step("operation", 0, m, isDisposed, 0,
            ZeroPerl_operation(Host, m, JUndefined, "", << >>))

\* the user calls a public operation of the instance
Operation ==
  /\ Room
  /\ \E m \in ZeroPerlOperations, v \in UserValues, s \in UserKeys,
        fn \in { [tag |-> "f", does |-> "returnsNothing", msg |-> ""] } :
       /\ m \in { "registerFunction", "registerMethod" } => nextFuncId <= MaxFuncs
       /\ Step("operation", 0, m, isDisposed, v,
            ZeroPerl_operation(Host, m, v, s, fn))

\* the user registers a callback
Register ==
  /\ nextFuncId <= MaxFuncs
  /\ \E m \in { "registerFunction", "registerMethod" }, fn \in UserCallbacks :
       Step("register", nextFuncId, m, isDisposed, fn,
            ZeroPerl_operation(Host, m, JUndefined, "f", fn))

\* the user calls a method of a PerlValue
ValueCall ==
  /\ Room
  /\ \E p \in DOMAIN proxies, m \in PerlValueMethods :
       /\ proxies[p].cls = "PerlValue"
       /\ Step("method", p, m, proxies[p].disposed, 0,
            PerlValue_call(Host, p, m))

\* the user calls a method of a PerlArray
ArrayCall ==
  /\ Room
  /\ \E p \in DOMAIN proxies, m \in PerlArrayMethods, i \in UserIndices,
        v \in UserValues :
       /\ proxies[p].cls = "PerlArray"
       /\ m \in { "push", "set" } => Len(heap[proxies[p].ptr].xs) < MaxLen
       /\ Step("method", p, m, proxies[p].disposed, v,
            PerlArray_call(Host, p, m, i, v))

\* the user calls a method of a PerlHash
HashCall ==
  /\ Room
  /\ \E p \in DOMAIN proxies, m \in PerlHashMethods, key \in UserKeys,
        v \in UserValues :
       /\ proxies[p].cls = "PerlHash"
       /\ Step("method", p, m, proxies[p].disposed, v,
            PerlHash_call(Host, p, m, key, v))

\* the user calls the static fromValue of PerlArray or PerlHash
FromValue ==
  /\ Room
  /\ \E p \in DOMAIN proxies, cls \in { "PerlArray", "PerlHash" } :
       /\ proxies[p].cls = "PerlValue"
       /\ Step("method", p, "fromValue", proxies[p].disposed, 0,
            Aggregate_fromValue(Host, p, cls))

\* the user calls dispose() of a proxy: the synchronous API
Dispose ==
  /\ api = "sync"
  /\ \E p \in DOMAIN proxies :
       Step("dispose", p, "dispose", proxies[p].disposed, 0,
            dispose(Host, p))

\* the user calls dispose() of a proxy of the asynchronous API: the call
\* runs up to its await
DisposeAsync ==
  /\ api = "async"
  /\ \E p \in DOMAIN proxies :
       /\ proxies[p].pending < 2
       /\ Step("dispose", p, "dispose", proxies[p].disposed, 0,
            disposeAsync(Host, p))

\* ... and a dispose() that awaits is resumed
DisposeAsyncResume ==
  /\ api = "async"
  /\ \E p \in DOMAIN proxies :
       /\ proxies[p].pending > 0
       /\ Step("settle", p, "dispose", proxies[p].disposed, 0,
            disposeAsyncResume(Host, p))

\* the user calls dispose() or shutdown() of the instance
InstanceDispose ==
  /\ api = "sync"
  /\ \E name \in { "zeroperl_free_interpreter", "zeroperl_shutdown" } :
       Step("end", 0, name, isDisposed, 0, ZeroPerl_dispose(Host, name))

\* the guest, running Perl code, calls call_host_function(funcId, argc, argv)
\* with no argument, a null argument or a value it has just made
GuestArgs == { << >>, << 0 >>, << Len(heap) + 1 >> }

WithArgs(h, argv) ==
  IF argv = << Len(h.heap) + 1 >>
  THEN [h EXCEPT !.heap = Append(@, GV(T_INT, 2, "", << >>, << >>))]
  ELSE h

Dispatch ==
  /\ Room
  /\ Len(heap) < MaxHeap
  /\ ~isDisposed
  /\ \E funcId \in 1..(MaxFuncs + 1), argv \in GuestArgs :
       Step("dispatch", funcId, "handleHostCall", isDisposed, argv,
            handleHostCall(WithArgs(Host, argv), funcId, argv))

\* the instance: its operations and its disposal
InitInstance == Created /\ api = "sync"

\* the proxies and their methods
NextProxy ==
  \/ Create
  \/ ValueCall
  \/ ArrayCall
  \/ HashCall
  \/ FromValue
  \/ Dispose

SpecProxy == InitInstance /\ [][NextProxy]_allvars

\* the disposal of proxies under both APIs
InitDispose == Created /\ api \in { "sync", "async" }

NextDispose ==
  \/ Create
  \/ Dispose
  \/ DisposeAsync
  \/ DisposeAsyncResume

SpecDispose == InitDispose /\ [][NextDispose]_allvars

NextInstance ==
  \/ Operation
  \/ InstanceDispose

SpecInstance == InitInstance /\ [][NextInstance]_allvars

\* the host function table and the dispatch
NextDispatch ==
  \/ Register
  \/ Dispatch
  \/ InstanceDispose

SpecDispatch == InitInstance /\ [][NextDispatch]_allvars



\* ------------------------------------------------ conversions as a machine
\* The conversions are functions of the value they are given: the value is
\* drawn at the start, and each step applies one operation to it.
Primitives ==
  { JNull, JUndefined, JBool(TRUE), JBool(FALSE), JNum(0), JNum(2), JNum(3),
    JNum(0 - 3), JNum(84), JStr(""), JStr("a"), JStr("1") }

\* host values: primitives, an existing PerlValue, an unsupported value, and
\* arrays and keyed objects of them, nested
ConvInputs ==
  Primitives
    \cup { JProxy(1), JFunction, JArr(<< >>), JObj(<< >>, << >>) }
    \cup { JArr(<< x >>) : x \in Primitives \cup { JProxy(1), JFunction } }
    \cup { JObj(<< "k" >>, << x >>) : x \in Primitives \cup { JProxy(1), JFunction } }
    \cup { JArr(<< JNum(2), JStr("a"), JBool(TRUE), JNull >>),
           JArr(<< JNum(2), JFunction >>),
           JArr(<< JArr(<< JNum(2) >>) >>),
           JArr(<< JObj(<< "k" >>, << JNum(3) >>) >>),
           JArr(<< JArr(<< JFunction >>) >>),
           JObj(<< "a", "b" >>, << JNum(2), JStr("a") >>),
           JObj(<< "a", "b" >>, << JNum(2), JFunction >>),
           JObj(<< "k" >>, << JArr(<< JNum(2), JNum(3) >>) >>),
           JObj(<< "k" >>, << JObj(<< "k" >>, << JFunction >>) >>) }

\* values the interpreter makes by itself while it runs Perl code: every
\* type code of mapPerlType's table, and one outside it
GuestValues ==
  { GV(T_UNDEF, 0, "", << >>, << >>), GV(T_TRUE, 0, "", << >>, << >>),
    GV(T_FALSE, 0, "", << >>, << >>), GV(T_INT, 84, "", << >>, << >>),
    GV(T_DOUBLE, 3, "", << >>, << >>), GV(T_STRING, 0, "a", << >>, << >>),
    GV(T_ARRAY, 0, "", << >>, << >>), GV(T_HASH, 0, "", << >>, << >>),
    GV(T_CODE, 0, "", << >>, << >>), GV(T_REF, 1, "", << >>, << >>),
    GV(T_REF + 1, 0, "", << >>, << >>) }

\* the ZeroPerl layer after createInt(42), createArray(), createHash()
EmptyHost ==
  [isDisposed |-> FALSE, hostFunctions |-> << >>, nextFuncId |-> 1,
   proxies |-> << >>, heap |-> << >>, perlVars |-> [ks |-> << >>, xs |-> << >>],
   hostError |-> "", xlog |-> << >>, invoked |-> << >>, lastError |-> ""]

Prepared ==
  createHash(createArray(createInt(EmptyHost, 84).h, FALSE, << >>).h,
             FALSE, << >>, << >>).h

InitConv ==
  /\ unwrappedExports = AsyncifyConstructor(SYNC_EXPORTS)
  /\ BridgeIdle
  /\ api = "sync"
  /\ isDisposed = FALSE
  /\ hostFunctions = << >>
  /\ nextFuncId = 1
  /\ hostError = ""
  /\ xlog = << >>
  /\ runs = << >>
  /\ lastError = ""
  /\ \E prep \in { Prepared }, v \in ConvInputs :
       /\ proxies = prep.proxies
       /\ heap = prep.heap
       /\ perlVars = prep.perlVars
       /\ hlast = [op |-> "input", p |-> 0, m |-> "", pre |-> FALSE, arg |-> v,
                   heapLen |-> Len(prep.heap), threw |-> FALSE, msg |-> "",
                   ret |-> JUndefined, invoked |-> << >>]

\* toPerlValue(v)
Convert ==
  /\ hlast.op = "input"
  /\ Step("convert", 0, "toPerlValue", FALSE, hlast.arg,
            toPerlValue(Host, hlast.arg))

\* array.push(v), array.set(0, v)
ConvertPush ==
  /\ hlast.op = "input"
  /\ \E m \in { "push", "set" } :
       Step("store", 2, m, FALSE, hlast.arg,
            PerlArray_call(Host, 2, m, 0, hlast.arg))

\* hash.set("k", v)
ConvertSet ==
  /\ hlast.op = "input"
  /\ Step("store", 3, "set", FALSE, hlast.arg,
            PerlHash_set(Host, 3, "k", hlast.arg))

\* setVariable("x", v)
ConvertSetVariable ==
  /\ hlast.op = "input"
  /\ Step("store", 0, "setVariable", FALSE, hlast.arg,
            setVariable(Host, "x", hlast.arg))

\* createArray(v) of an array v, the way to a PerlArray
ConvertCreateArray ==
  /\ hlast.op = "input"
  /\ hlast.arg.k = "array"
  /\ Step("createArray", 0, "createArray", FALSE, hlast.arg,
            createArray(Host, TRUE, hlast.arg.xs))

\* the interpreter binds $y to a value of its own making
GuestDefines ==
  /\ hlast.op = "input"
  /\ hlast.arg = JNull
  /\ \E gv \in GuestValues :
       /\ heap' = Append(heap, gv)
       /\ perlVars' = HashStore(perlVars, "y", Len(heap) + 1)
       /\ hlast' = [hlast EXCEPT !.op = "guest", !.arg = gv]
       /\ xlog' = << >>
       /\ UNCHANGED << api, isDisposed, hostFunctions, nextFuncId, proxies,
                       hostError, runs, lastError, vars >>

\* getVariable("y")
ConvertGetVariable ==
  /\ hlast.op = "guest"
  /\ Step("getVariable", 0, "getVariable", FALSE, hlast.arg,
            getVariable(Host, "y"))

\* value.project() of the PerlValue the last step returned
Project ==
  /\ hlast.op \in { "convert", "getVariable" }
  /\ ~hlast.threw
  /\ hlast.ret.k = "PerlValue"
  /\ Step("project", hlast.ret.n, hlast.op, FALSE, hlast.arg,
            PerlValue_project(Host, hlast.ret.n))

\* array.project() of the PerlArray createArray returned
ProjectArray ==
  /\ hlast.op = "createArray"
  /\ ~hlast.threw
  /\ Step("projectArray", hlast.ret.n, "project", FALSE, hlast.arg,
            PerlArray_project(Host, hlast.ret.n))

NextConv ==
  \/ Convert
  \/ ConvertPush
  \/ ConvertSet
  \/ ConvertSetVariable
  \/ ConvertCreateArray
  \/ GuestDefines
  \/ ConvertGetVariable
  \/ Project
  \/ ProjectArray

SpecConv == InitConv /\ [][NextConv]_allvars

\* ------------------------------------------------------------------ claims
\* C11: after dispose() on a PerlValue, PerlArray or PerlHash, every other
\* method of that proxy throws "<Type> has been disposed" and calls no guest
\* export.
C11_DisposedProxyThrows ==
  (hlast.op = "method" /\ hlast.pre) =>
    /\ hlast.threw
    /\ hlast.msg = proxies[hlast.p].cls \o " has been disposed"
    /\ xlog = << >>

\* a push on a disposed PerlArray has thrown
C11_Witness ==
  /\ hlast.op = "method" /\ hlast.pre /\ hlast.threw
  /\ hlast.m = "push"
  /\ proxies[hlast.p].cls = "PerlArray"
  /\ proxies[hlast.p].frees = 1


\* C12: for each proxy the guest free export for its handle is called exactly
\* once, by the first dispose(); any later dispose() is a no-op, in every
\* ordering of dispose() calls, a second call issued before the first has
\* settled included.  (frees counts the calls of the free export.)
C12_FreedOnce ==
  /\ \A p \in DOMAIN proxies : proxies[p].frees <= 1
  /\ hlast.op = "dispose" => proxies[hlast.p].frees = 1

\* the same under the synchronous API alone
C12_FreedOnceSync == api = "sync" => C12_FreedOnce


\* C13: after dispose() or shutdown() on a ZeroPerl instance, every other
\* public operation (eval, runFile, call, reset, flush, create*, toPerlValue,
\* getVariable / setVariable, registerFunction / registerMethod, getLastError,
\* clearError, isInitialized, canEvaluate) throws "ZeroPerl instance has been
\* disposed" and calls no guest export.
C13_DisposedInstanceThrows ==
  (hlast.op = "operation" /\ hlast.pre) =>
    /\ hlast.threw
    /\ hlast.msg = DisposedInstance
    /\ xlog = << >>

\* the same for every operation but toPerlValue
C13_AllButToPerlValue ==
  (hlast.op = "operation" /\ hlast.pre /\ hlast.m # "toPerlValue") =>
    /\ hlast.threw
    /\ hlast.msg = DisposedInstance
    /\ xlog = << >>


\* what the last dispatch was: the handle the guest passed (0 when it passed
\* none or null), what the callback returned, and the calls of the guest's
\* undef constructor
ArgHandle == IF hlast.arg = << >> THEN 0 ELSE hlast.arg[1]

Registered == hlast.op = "dispatch" /\ hlast.p \in DOMAIN hostFunctions

ReturnedValue ==
  /\ Registered
  /\ hostFunctions[hlast.p].does \in { "returnsArg", "returnsDisposed" }
  /\ ArgHandle # 0

ReturnedNothing ==
  /\ Registered
  /\ \/ hostFunctions[hlast.p].does = "returnsNothing"
     \/ /\ hostFunctions[hlast.p].does \in { "returnsArg", "returnsDisposed" }
        /\ ArgHandle = 0

NewUndefCalls == Cardinality({ i \in DOMAIN xlog : xlog[i].name = "zeroperl_new_undef" })

\* the values the guest holds after the dispatch: those before it and the
\* argument it made
HeapBefore == hlast.heapLen + (IF ArgHandle # 0 THEN 1 ELSE 0)

FailureMessage ==
  IF hlast.p \in DOMAIN hostFunctions THEN hostFunctions[hlast.p].msg
  ELSE NotFoundMessage(hlast.p)

DispatchFailed ==
  /\ hlast.op = "dispatch"
  /\ hlast.p \in DOMAIN hostFunctions => hostFunctions[hlast.p].does = "throws"

SetHostErrorCalls ==
  Cardinality({ i \in DOMAIN xlog : xlog[i].name = "zeroperl_set_host_error" })

\* C15: if the callback of a dispatch throws or rejects with any message (or
\* the id is not registered), dispatch installs that message through
\* zeroperl_set_host_error, resolves to the null handle 0, and never throws
\* toward the guest.
C15_FailureInstalled ==
  DispatchFailed =>
    /\ ~hlast.threw
    /\ hlast.ret = JNum(0)
    /\ SetHostErrorCalls = 1
    /\ hostError = FailureMessage

\* the same for the failures with a message that is not empty
C15_NonEmptyInstalled ==
  (DispatchFailed /\ FailureMessage # "") => C15_FailureInstalled


\* C16: the host function table is add-only with fresh ids: each
\* registerFunction / registerMethod call takes the next id from a strictly
\* increasing counter starting at 1, no id is ever reused or rebound to another
\* callback, no single entry is ever removed, and the table is emptied only by
\* dispose() or shutdown().
C16_Step ==
  /\ hlast.op = "new" => nextFuncId = 1 /\ hostFunctions = << >>
  /\ DOMAIN hostFunctions \subseteq 1..(nextFuncId - 1)
  /\ IF hlast'.op = "register" /\ ~hlast'.threw
     THEN /\ nextFuncId' = nextFuncId + 1
          /\ DOMAIN hostFunctions' = DOMAIN hostFunctions \cup { nextFuncId }
          /\ hostFunctions'[nextFuncId] = hlast'.arg
          /\ \A i \in DOMAIN hostFunctions : hostFunctions'[i] = hostFunctions[i]
     ELSE /\ nextFuncId' = nextFuncId
          /\ \/ hostFunctions' = hostFunctions
             \/ hlast'.op = "end" /\ hostFunctions' = << >>

C16_TableAddOnly == [][C16_Step]_allvars

\* a second callback has been registered under id 2 beside another under id 1
C16_Witness ==
  /\ hlast.op = "register" /\ ~hlast.threw
  /\ hlast.p = 2
  /\ DOMAIN hostFunctions = { 1, 2 }
  /\ hostFunctions[1] # hostFunctions[2]
  /\ nextFuncId = 3


\* the host value holds a value that is none of PerlValue, null, undefined,
\* boolean, number, string, array or keyed object, at any depth
RECURSIVE ContainsUnsupported(_)
ContainsUnsupported(v) ==
  CASE v.k \in { "array", "object" } ->
         \E i \in DOMAIN v.xs : ContainsUnsupported(v.xs[i])
    [] v.k \in { "PerlValue", "null", "undefined", "boolean", "number", "string" } ->
         FALSE
    [] OTHER -> TRUE

\* the guest value behind handle ptr is what the rule table makes of the host
\* value v; every value made for it is new (its handle is above since)
RECURSIVE Holds(_, _, _, _)
Holds(hp, ptr, v, since) ==
  LET gv == hp[ptr] IN
  CASE v.k = "PerlValue" -> ptr = proxies[v.n].ptr
    [] v.k \in { "null", "undefined" } -> ptr > since /\ gv.t = T_UNDEF
    [] v.k = "boolean" -> ptr > since /\ gv.t = (IF v.b THEN T_TRUE ELSE T_FALSE)
    [] v.k = "number" ->
         /\ ptr > since
         /\ gv.t = (IF v.n % 2 = 0 THEN T_INT ELSE T_DOUBLE)
         /\ gv.n = v.n
    [] v.k = "string" -> ptr > since /\ gv.t = T_STRING /\ gv.s = v.s
    [] v.k = "array" ->
         /\ ptr > since /\ gv.t = T_REF
         /\ gv.n > since /\ hp[gv.n].t = T_ARRAY
         /\ Len(hp[gv.n].xs) = Len(v.xs)
         /\ \A i \in DOMAIN v.xs : Holds(hp, hp[gv.n].xs[i], v.xs[i], since)
    [] v.k = "object" ->
         /\ ptr > since /\ gv.t = T_REF
         /\ gv.n > since /\ hp[gv.n].t = T_HASH
         /\ hp[gv.n].ks = v.ks
         /\ \A i \in DOMAIN v.xs : Holds(hp, hp[gv.n].xs[i], v.xs[i], since)
    [] OTHER -> FALSE

\* C17: toPerlValue(x) classifies its input by the first matching rule: a
\* PerlValue is returned as the same object with no guest call; null/undefined
\* gives a new undef scalar; a boolean a new boolean scalar; an integral number
\* a new int scalar; a non-integral number a new double scalar; a string a new
\* string scalar; an array a reference to a new array of the recursively
\* converted elements in order; a plain keyed object a reference to a new hash
\* of the recursively converted entries.
C17_Classifies ==
  (hlast.op = "convert" /\ ~ContainsUnsupported(hlast.arg)) =>
    /\ ~hlast.threw
    /\ hlast.ret.k = "PerlValue"
    /\ IF hlast.arg.k = "PerlValue"
       THEN /\ hlast.ret = hlast.arg
            /\ xlog = << >>
            /\ heap = Prepared.heap
            /\ proxies = Prepared.proxies
       ELSE /\ hlast.ret.n > Len(Prepared.proxies)
            /\ proxies[hlast.ret.n].cls = "PerlValue"
            /\ ~proxies[hlast.ret.n].disposed
            /\ Holds(heap, proxies[hlast.ret.n].ptr, hlast.arg, hlast.heapLen)

\* an object holding an array of an integral and a non-integral number has
\* been converted
C17_Witness ==
  /\ hlast.op = "convert" /\ ~hlast.threw
  /\ hlast.arg = JObj(<< "k" >>, << JArr(<< JNum(2), JNum(3) >>) >>)
  /\ heap[proxies[hlast.ret.n].ptr].t = T_REF


\* C18: given a host value that is none of proxy, null/undefined, boolean,
\* number, string, ordered sequence or keyed map (at top level or nested at any
\* depth inside an array or object), toPerlValue, push, set and setVariable
\* throw a conversion error before any guest export has been called.
C18_RejectedBeforeGuest ==
  (hlast.op \in { "convert", "store" } /\ ContainsUnsupported(hlast.arg)) =>
    /\ hlast.threw
    /\ hlast.msg = ConversionError("function")
    /\ xlog = << >>

\* the same for an unsupported value at top level
C18_TopLevelRejected ==
  (hlast.op \in { "convert", "store" } /\ hlast.arg = JFunction) =>
    C18_RejectedBeforeGuest

\* for a nested one the error is thrown, after guest exports were called
C18_NestedThrows ==
  (hlast.op \in { "convert", "store" } /\ ContainsUnsupported(hlast.arg)) =>
    /\ hlast.threw
    /\ hlast.msg = ConversionError("function")
    /\ hlast.arg # JFunction => xlog # << >>


\* a host-native value: a primitive, or an array or keyed object of
\* host-native values
RECURSIVE IsNative(_)
IsNative(v) ==
  CASE v.k \in { "null", "undefined", "boolean", "number", "string" } -> TRUE
    [] v.k \in { "array", "object" } -> \A i \in DOMAIN v.xs : IsNative(v.xs[i])
    [] OTHER -> FALSE

\* equality of host values, null and undefined taken as equal as == does
RECURSIVE JsEquals(_, _)
JsEquals(a, b) ==
  CASE a.k \in { "null", "undefined" } -> b.k \in { "null", "undefined" }
    [] a.k \in { "array", "object" } ->
         /\ b.k = a.k
         /\ b.ks = a.ks
         /\ Len(b.xs) = Len(a.xs)
         /\ \A i \in DOMAIN a.xs : JsEquals(a.xs[i], b.xs[i])
    [] OTHER -> a = b

\* C19: round trip: for every host-native primitive (string, number, boolean,
\* null, undefined), array and plain map v, project(toPerlValue(v)) equals v.
C19_RoundTrip ==
  (hlast.op = "project" /\ hlast.m = "convert" /\ IsNative(hlast.arg)) =>
    /\ ~hlast.threw
    /\ JsEquals(hlast.ret, hlast.arg)

\* the same for the primitives
C19_PrimitivesRoundTrip ==
  (hlast.op = "project" /\ hlast.m = "convert"
     /\ hlast.arg.k \in { "null", "undefined", "boolean", "number", "string" }) =>
    C19_RoundTrip

\* createArray(v).project() gives back an array of primitives
C19_FlatArrayRoundTrip ==
  (hlast.op = "projectArray" /\ IsNative(hlast.arg)
     /\ \A i \in DOMAIN hlast.arg.xs : hlast.arg.xs[i].k \notin { "array", "object" }) =>
    /\ ~hlast.threw
    /\ JsEquals(hlast.ret, hlast.arg)


\* the tag the claim gives a type code
TagOf(typeCode) ==
  CASE typeCode = 0 -> "undef"
    [] typeCode = 1 -> "true"
    [] typeCode = 2 -> "false"
    [] typeCode = 3 -> "int"
    [] typeCode = 4 -> "double"
    [] typeCode = 5 -> "string"
    [] typeCode = 6 -> "array"
    [] typeCode = 7 -> "hash"
    [] typeCode = 8 -> "code"
    [] typeCode = 9 -> "ref"
    [] OTHER -> "undef"

\* the guest value behind the proxy of the last step
Projected == heap[proxies[hlast.p].ptr]

\* C20: PerlValue.project() returns null whenever isUndef holds; otherwise
\* true / false for type tags 'true' / 'false', the toDouble() number for 'int'
\* and 'double', and the toString() string for every other tag, where getType
\* maps tag codes 0..9 to undef, true, false, int, double, string, array, hash,
\* code, ref in that order and any other code to 'undef'.
C20_ProjectRule ==
  /\ \A code \in (0 - 1)..(T_REF + 3) : mapPerlType(code) = TagOf(code)
  /\ hlast.op = "project" =>
       /\ ~hlast.threw
       /\ hlast.ret =
            IF Projected.t = T_UNDEF THEN JNull
            ELSE CASE TagOf(Projected.t) = "true" -> JBool(TRUE)
                   [] TagOf(Projected.t) = "false" -> JBool(FALSE)
                   [] TagOf(Projected.t) \in { "int", "double" } ->
                        JNum(NumberForm(Projected))
                   [] OTHER -> JStr(StringForm(Projected))

\* a value whose type code is outside the table, and which is not undef, has
\* been projected to its string
C20_Witness ==
  /\ hlast.op = "project" /\ hlast.m = "getVariable"
  /\ Projected.t = T_REF + 1
  /\ hlast.ret.k = "string"


\* ------------------------------------------------ running code as a machine
\* One step is one segment of eval, runFile, call or reset (up to its await,
\* or from it once the awaited export has settled), or one synchronous
\* operation of the user in between.
MaxResults == 2

\* exit codes and texts of $@ the guest reports
ExitCodes == { 0, 1, 2 }
ErrorTexts == { "", "died" }

\* the contexts of call()
PerlContexts == { "void", "scalar", "list" }

\* the result blocks of at most n entries
ResultBlocks(n) == UNION { [1..k -> BOOLEAN] : k \in 0..n }

\* how the export awaited by operation op may settle
Outcomes(op) ==
  { Outcome(kind, n, e, FALSE, FALSE, << >>) :
      kind \in { "value", "exit" }, n \in ExitCodes, e \in ErrorTexts }
    \cup { Outcome("error", 0, "", FALSE, FALSE, << >>) }
    \cup (IF op = "call"
          THEN { Outcome("value", 1, "", TRUE, v, rs) :
                   v \in BOOLEAN, rs \in ResultBlocks(MaxResults) }
          ELSE {})

\* the arguments the user passes
StringArgs == { << >>, << JStr("a") >> }
ValueArgs == { << >> } \cup { << JProxy(p) >> : p \in DOMAIN proxies }

\* the bridge apart from the guest's asyncify state
bridgeRest == << unwrappedExports, exports, descriptor, value, WRAPPED_EXPORTS,
                 wrappers, tables, nextObj, data, promises, calls, ncalls, fin,
                 log, last >>

\* the outcomes the export wrapper allows in asyncify state st: its first
\* statement is assertNoneState()
Allowed(st, out) == st = None \/ out.kind = "error"

\* the asyncify state a settled export leaves: the wrapper returns a value
\* only past its last assertNoneState(); a process exit is thrown by the
\* underlying function of an import, which the import wrapper calls only
\* past its assertNoneState(); an assertion that failed found another state,
\* and nothing changes it afterwards
StatesAfter_Any(st, out) == { None, Unwinding, Rewinding }

StatesAfter(st, out) ==
  IF out.kind \in { "value", "exit" } THEN { None }
  ELSE IF st # None THEN { st }
  ELSE { Unwinding, Rewinding }

\* the state a segment leaves becomes the state of the layer
CommitRun(op, r, rs, arg, st) ==
  /\ Effects(r, HLast(op, 0, arg.run.op, isDisposed, arg, r))
  /\ runs' = rs
  /\ state' = st
  /\ UNCHANGED << api, bridgeRest >>

\* the user, who awaits each of these calls before the next, calls eval,
\* runFile, call or reset: the call runs up to its await
RunEnter ==
  /\ runs = << >>
  /\ \E op \in { "eval", "runFile", "call", "reset" }, str \in { "", "f" } :
       \E r \in CASE op = "call" ->
                     { callEnter(Host, str, args, c) :
                         args \in ValueArgs, c \in PerlContexts }
                  [] op = "reset" -> { resetEnter(Host) }
                  [] OTHER -> { evalEnter(Host, op, str, args) : args \in StringArgs } :
         CommitRun("enter", r, IF r.threw THEN runs ELSE Append(runs, r.run),
                   [run |-> IF r.threw THEN Run(op, "", FALSE, FALSE, << >>) ELSE r.run,
                    out |-> RunsThrough],
                   state)

\* runs without its i-th element
Without(rs, i) == SubSeq(rs, 1, i - 1) \o SubSeq(rs, i + 1, Len(rs))

\* the awaited export settles and the call continues after its await
RunSettle ==
  \E i \in DOMAIN runs :
    \E out \in Outcomes(runs[i].op) :
      /\ Len(heap) + Len(out.results) <= MaxHeap
      /\ Allowed(state, out)
      /\ \E r \in { CASE runs[i].op = "call" ->
                           callSettle(GuestRan(Host, out), runs[i], out)
                      [] runs[i].op = "reset" ->
                           resetSettle(GuestRan(Host, out), runs[i], out)
                      [] OTHER -> evalSettle(GuestRan(Host, out), runs[i], out) },
            st \in StatesAfter(state, out) :
           CommitRun("settle", r, Without(runs, i), [run |-> runs[i], out |-> out], st)

\* the user registers a host function
RunRegister ==
  /\ nextFuncId <= MaxFuncs
  /\ Step("register", nextFuncId, "registerFunction", isDisposed, 0,
          registerFunction(Host, "f", [tag |-> "f", does |-> "returnsNothing", msg |-> ""]))

NextRun ==
  \/ RunEnter
  \/ RunSettle
  \/ RunRegister
  \/ InstanceDispose

SpecRun == InitInstance /\ [][NextRun]_allvars


\* ---------------------------------------------------------------- C21
\* the places in a log of the calls of export `name` on address a
CallsOf(lg, name, a) == { i \in DOMAIN lg : lg[i] = [name |-> name, a |-> a] }

\* the step is the second segment of a call() whose export resolved to a
\* result block
ExtractsBlock(l) ==
  /\ l.op = "settle"
  /\ l.arg.run.op = "call"
  /\ l.arg.out.kind = "value"
  /\ l.arg.out.block

\* C21: call(name, args, context) whose guest returns a block of n result
\* handles makes one PerlValue per handle, in guest order; 'list' resolves
\* to these n proxies in that order, 'scalar' to the first of them (null
\* when n = 0), 'void' to undefined with all n disposed; in every context
\* the host frees the block exactly once, after the last zeroperl_result_get.
C21_Step ==
  ExtractsBlock(hlast') =>
    LET out == hlast'.arg.out
        context == hlast'.arg.run.context
        n == Made(out.results, Len(out.results))
        fresh == [k \in 1..n |-> JProxy(Len(proxies) + k)]
    IN /\ ~hlast'.threw
       /\ Len(proxies') = Len(proxies) + n
       /\ \A k \in 1..n :
            /\ proxies'[Len(proxies) + k].cls = "PerlValue"
            /\ proxies'[Len(proxies) + k].ptr = Len(heap) + k
            /\ heap'[Len(heap) + k] = GV(T_INT, 2 * k, "", << >>, << >>)
            /\ proxies'[Len(proxies) + k].disposed = (context = "void")
            /\ proxies'[Len(proxies) + k].frees = (IF context = "void" THEN 1 ELSE 0)
       /\ context = "list" => hlast'.ret = JArr(fresh)
       /\ context = "scalar" => hlast'.ret = (IF n = 0 THEN JNull ELSE fresh[1])
       /\ context = "void" => hlast'.ret = JUndefined
       /\ Cardinality(CallsOf(xlog', "free", ResultAddr.block)) = 1
       /\ Cardinality(CallsOf(xlog', "free", ResultAddr.values)) =
            (IF out.values THEN 1 ELSE 0)
       /\ Cardinality(CallsOf(xlog', "zeroperl_result_get", ResultAddr.block)) =
            Len(out.results)
       /\ \A i \in CallsOf(xlog', "zeroperl_result_get", ResultAddr.block),
             j \in CallsOf(xlog', "free", ResultAddr.block) : i < j

C21_CallByContext == [][C21_Step]_allvars

C21_Witness ==
  /\ ExtractsBlock(hlast)
  /\ hlast.arg.run.context = "list"
  /\ hlast.arg.out.results = << TRUE, TRUE >>
  /\ hlast.ret.k = "array"
  /\ Len(hlast.ret.xs) = 2


\* ---------------------------------------------------------------- C22
\* the step is the second segment of eval or runFile
SettlesEval(l) ==
  /\ l.op = "settle"
  /\ l.arg.run.op \in { "eval", "runFile" }

\* C22 (as stated): eval and runFile whose export reports exit code 0
\* resolve to { success: true, exitCode: 0 }; for a code c other than 0 they
\* resolve, and do not reject, to { success: false, exitCode: c, error: the
\* text of $@ }.
C22_Step ==
  (SettlesEval(hlast') /\ hlast'.arg.out.kind = "value") =>
    /\ ~hlast'.threw
    /\ hlast'.ret = (IF hlast'.arg.out.n = 0 THEN Success
                     ELSE Failure(hlast'.arg.out.n, hlast'.arg.out.error))

C22_ResolvesByExitCode == [][C22_Step]_allvars

\* C22 (amended): the same on an instance that is not disposed when the call
\* continues after its await.  When dispose() or shutdown() was called while
\* the call was at its await, exit code 0 still resolves to success and any
\* other code rejects with the disposed-instance error.  Every result that
\* is returned has success exactly when its exitCode is 0.
C22_LiveStep ==
  SettlesEval(hlast') =>
    /\ hlast'.arg.out.kind = "value" =>
         IF hlast'.arg.out.n = 0
         THEN ~hlast'.threw /\ hlast'.ret = Success
         ELSE IF isDisposed
         THEN hlast'.threw /\ hlast'.msg = DisposedInstance
         ELSE /\ ~hlast'.threw
              /\ hlast'.ret = Failure(hlast'.arg.out.n, hlast'.arg.out.error)
              /\ hlast'.ret.s = lastError'
    /\ ~hlast'.threw =>
         /\ hlast'.ret.k = "result"
         /\ hlast'.ret.b <=> (hlast'.ret.n = 0)

C22_ResolvesByExitCodeLive == [][C22_LiveStep]_allvars

C22_Witness ==
  /\ SettlesEval(hlast)
  /\ hlast.arg.out.kind = "value"
  /\ hlast.arg.out.n = 2
  /\ ~hlast.threw
  /\ hlast.ret = Failure(2, "died")


\* ---------------------------------------------------------------- C23
\* the step is the second segment of eval, runFile or call
SettlesRun(l) ==
  /\ l.op = "settle"
  /\ l.arg.run.op \in { "eval", "runFile", "call" }

\* C23 (as stated): a WASIProcExit with code c raised while eval, runFile or
\* call awaits is caught: eval and runFile resolve with exitCode c, success
\* exactly when c = 0, and call resolves without raising; any other
\* exception is raised again and no result is made of it.
C23_Step ==
  SettlesRun(hlast') =>
    /\ hlast'.arg.out.kind = "exit" =>
         /\ ~hlast'.threw
         /\ hlast'.ret =
              (IF hlast'.arg.run.op = "call" THEN EmptyResult(hlast'.arg.run.context)
               ELSE IF hlast'.arg.out.n = 0 THEN Success
               ELSE Failure(hlast'.arg.out.n, hlast'.arg.out.error))
    /\ hlast'.arg.out.kind = "error" =>
         (hlast'.threw /\ hlast'.msg = InvalidState)

C23_ProcExitCaught == [][C23_Step]_allvars

\* C23 (amended): the same on an instance that is not disposed when the call
\* continues after its await.  When dispose() or shutdown() was called while
\* eval or runFile was at its await, a WASIProcExit with code 0 still
\* resolves to success and one with another code rejects with the
\* disposed-instance error, which getLastError() raises in the catch block;
\* call resolves by its context in either case and makes no proxy.
C23_LiveStep ==
  SettlesRun(hlast') =>
    /\ (hlast'.arg.out.kind = "exit" /\ hlast'.arg.run.op = "call") =>
         /\ ~hlast'.threw
         /\ hlast'.ret = EmptyResult(hlast'.arg.run.context)
         /\ proxies' = proxies
    /\ (hlast'.arg.out.kind = "exit" /\ hlast'.arg.run.op # "call") =>
         IF hlast'.arg.out.n = 0
         THEN ~hlast'.threw /\ hlast'.ret = Success
         ELSE IF isDisposed
         THEN hlast'.threw /\ hlast'.msg = DisposedInstance
         ELSE /\ ~hlast'.threw
              /\ hlast'.ret = Failure(hlast'.arg.out.n, hlast'.arg.out.error)
    /\ hlast'.arg.out.kind = "error" =>
         (hlast'.threw /\ hlast'.msg = InvalidState /\ hlast'.ret = JUndefined)

C23_ProcExitCaughtLive == [][C23_LiveStep]_allvars

C23_Witness ==
  /\ SettlesRun(hlast)
  /\ hlast.arg.run.op = "runFile"
  /\ hlast.arg.out.kind = "exit"
  /\ hlast.arg.out.n = 1
  /\ hlast.ret = Failure(1, "died")


\* ---------------------------------------------------------------- C24
\* the step is the second segment of an eval, runFile or call that failed:
\* the guest exited, or returned a non-zero code (eval, runFile) or no
\* result block (call)
Fails(l) ==
  /\ l.op = "settle"
  /\ l.arg.run.op \in { "eval", "runFile", "call" }
  /\ \/ l.arg.out.kind = "exit"
     \/ /\ l.arg.out.kind = "value"
        /\ IF l.arg.run.op = "call" THEN ~l.arg.out.block ELSE l.arg.out.n # 0

\* an eval called in the state the step leaves, whose guest run ends with
\* code 0, resolves to the success result
EvalSucceedsNext ==
  /\ Allowed(state', RunsThrough)
  /\ \E r \in { ZeroPerl_eval(Host', "") } : ~r.threw /\ r.ret = Success

\* C24: a failed eval, runFile or call (non-zero exit code, guest process
\* exit, or guest-reported error) leaves the disposed flag, the host function
\* table and the id counter as they were and the asyncify state None, and on
\* an instance not disposed a following eval can succeed.
C24_Step ==
  Fails(hlast') =>
    /\ isDisposed' = isDisposed
    /\ hostFunctions' = hostFunctions
    /\ nextFuncId' = nextFuncId
    /\ state' = None
    /\ ~isDisposed' => EvalSucceedsNext

ResetSegment(l) == l.op \in { "enter", "settle" } /\ l.m = "reset"

\* C25: reset() leaves the host function table, the function id counter and
\* the disposed flag unchanged: every host function registered before reset()
\* remains stored under the same id afterwards.
C25_Step ==
  ResetSegment(hlast') =>
    /\ hostFunctions' = hostFunctions
    /\ nextFuncId' = nextFuncId
    /\ isDisposed' = isDisposed
    /\ \A id \in DOMAIN hostFunctions :
         id \in DOMAIN hostFunctions' /\ hostFunctions'[id] = hostFunctions[id]

C25_ResetKeepsFunctions == [][C25_Step]_allvars

C25_Witness ==
  /\ hlast.op = "settle"
  /\ hlast.m = "reset"
  /\ ~hlast.threw
  /\ Len(hostFunctions) = 2
  /\ nextFuncId = 3
  /\ ~isDisposed


\* ---------------------------------------------------------------- C26
\* The host whose pending results all resolve and who awaits each call of a
\* wrapped export before the next.  The continuation of an await is a job of
\* the event loop, which runs every job that is queued: a call that is
\* suspended is eventually resumed.
Settles == \E c \in 1..Len(calls), x \in Vals : Resume(c, x)

NextLive ==
  \/ Instantiate
  \/ \E name \in HostCallNames, arg \in Vals :
        calls = << >> /\ CallWrapped(name, arg)
  \/ \E name \in HostCallNames : CallDirect(name, 1)
  \/ Settles

SpecLive == Init /\ [][NextLive]_vars /\ WF_vars(Settles)

\* how often control export `name` occurs in a trace
Times(tr, name) == Cardinality({ i \in DOMAIN tr : tr[i] = name })

\* the call that ended in the last step returned, after as many
\* (stop_unwind, await, start_rewind, re-invoke) rounds as passes ended in
\* state Unwinding, with the result of its last pass and in state None
ReturnedLastPass ==
  fin.st = "returned" =>
    /\ state = None
    /\ Times(fin.trace, "asyncify_stop_unwind") = fin.k
    /\ Times(fin.trace, "asyncify_start_rewind") = fin.k
    /\ Len(fin.passes) = fin.k + 1
    /\ fin.k = fin.au
    /\ last.ret = Num(fin.result)

\* C26: when every pending result resolves, a wrapped export call that
\* suspended (its guest body suspends only finitely often) eventually
\* returns; the wrapper has then repeated (stop_unwind, await, start_rewind,
\* re-invoke) once per pass that ended in state Unwinding and returns the
\* result of the pass that ended in state None.
C26_EventuallyReturns ==
  /\ (calls # << >>) ~> (fin.st = "returned" /\ fin.k >= 1)
  /\ []ReturnedLastPass

C26_Witness ==
  /\ fin.st = "returned"
  /\ fin.k = 2
  /\ Len(fin.passes) = 3
  /\ state = None


\* ---------------------------------------------------------------- C27
\* every invocation of the guest function the call has made so far received
\* the argument of the call
SameArgs(call) == \A i \in DOMAIN call.passes : call.passes[i] = call.arg

\* C27: every re-invocation of the guest function made by the export wrapper
\* during a rewind pass uses exactly the argument list of the original call,
\* for every number of suspensions.
C27_RewindUsesOriginalArgs ==
  /\ \A c \in DOMAIN calls : SameArgs(calls[c])
  /\ fin.st # "none" => SameArgs(fin)

C27_Witness ==
  /\ fin.st = "returned"
  /\ fin.k = 2
  /\ fin.arg = 1
  /\ fin.passes = << 1, 1, 1 >>


\* ---------------------------------------------------------------- C28
\* the imports the guest reaches through a wrapper
WrappedImports == { name \in DOMAIN ImportDefs : ImportIsWrapped(name) }

\* the wrapper of import `name`, called in the present state, passes on what
\* the underlying function returns and touches nothing
PassesThrough(name) ==
  \E u \in { Underlying(name, World) }, r \in { wrapImportFn(name, World) } :
    IF isPromise(u.v)
    THEN CtlNames(r.w.log) = << "asyncify_start_unwind" >>
    ELSE /\ ~r.threw
         /\ r.ret = u.v
         /\ CtlNames(r.w.log) = << >>
         /\ r.w.state = state
         /\ r.w.value = value

\* the wrappers that ran in the last step in state None: one whose
\* underlying function returned a value that is no promise returned that
\* value and called no control export, and asyncify_start_unwind was called
\* only for a promise
PassedThrough ==
  \A i \in DOMAIN log :
    (log[i].e = "import" /\ log[i].st = None) =>
      /\ log[i].under
      /\ IF ImportDefs[log[i].name].async
         THEN log[i].ctl = "asyncify_start_unwind"
         ELSE /\ log[i].ctl = ""
              /\ ~log[i].threw
              /\ log[i].ret = Num(ImportDefs[log[i].name].ret)

\* C28: when the underlying function of a wrapped import returns a
\* non-promise value in state None, the wrapper returns that value unchanged,
\* calls no asyncify control export, and leaves the asyncify state and the
\* pending slot unchanged; start_unwind is called only when the returned
\* value is thenable.
C28_SyncImportPassesThrough ==
  /\ PassedThrough
  /\ state = None => \A name \in WrappedImports : PassesThrough(name)

C28_Witness ==
  /\ state = None
  /\ isPromise(value)
  /\ \E i \in DOMAIN log :
       log[i] = ImportEv("fd_write", None, TRUE, FALSE, "", Num(1))


\* ---------------------------------------------------------------- C29
\* The exports whose guest function reaches an async import only through
\* instrumented code, and the host that calls those, also while another
\* call is suspended.
SoundNames ==
  { name \in HostCallNames :
      \/ Instrumented[RawExports[name]]
      \/ \A i \in DOMAIN Body[RawExports[name]] :
           ~ImportDefs[Body[RawExports[name]][i]].async }

NextSound ==
  \/ Instantiate
  \/ \E name \in SoundNames, arg \in Vals : CallWrapped(name, arg)
  \/ \E name \in HostCallNames : CallDirect(name, 1)
  \/ \E c \in 1..Len(calls), x \in Vals : Resume(c, x)
  \/ \E c \in 1..Len(calls) : ResumeRejected(c)

SpecSound == Init /\ [][NextSound]_vars

\* the call that ended in the last step was rejected by its awaited result
RejectedByAwaited ==
  /\ last.op = "resume"
  /\ last.outcome = "rejected"
  /\ fin.err = "reason"

\* C29: if the awaited pending result rejects, the wrapped export rejects
\* with that same reason: start_rewind is not called for that suspension,
\* the guest function is not re-invoked, and the guest state is None
\* (stop_unwind already ran) when the rejection reaches the caller.
C29_RejectionPassedOn ==
  RejectedByAwaited =>
    /\ fin.st = "rejected"
    /\ log = << >>
    /\ Times(fin.trace, "asyncify_stop_unwind") = fin.k
    /\ Times(fin.trace, "asyncify_start_rewind") = fin.k - 1
    /\ Len(fin.passes) = fin.k
    /\ state = None

C29_Witness ==
  /\ RejectedByAwaited
  /\ fin.k = 2
  /\ fin.trace[Len(fin.trace)] = "asyncify_stop_unwind"
  /\ state = None


\* ---------------------------------------------------------------- C30
\* instantiate() of a module with or without the stack pointer export
InstantiateModule ==
  /\ exports = 0
  /\ \E raw \in Modules, sp \in StackTops : init(raw, sp)

\* ... by the host that awaits each call of a wrapped export
NextInit ==
  \/ InstantiateModule
  \/ \E name \in HostCallNames, arg \in Vals :
        calls = << >> /\ CallWrapped(name, arg)
  \/ \E name \in HostCallNames : CallDirect(name, 1)
  \/ \E c \in 1..Len(calls), x \in Vals : Resume(c, x)
  \/ \E c \in 1..Len(calls) : ResumeRejected(c)

SpecInit == Init /\ [][NextInit]_vars

\* the step is the init of a module; the table it makes tells whether the
\* module exports the stack pointer, and `last` which value the global held
Initialises == exports = 0 /\ exports' # 0

\* C30: after init, the control-block descriptor at guest address 16 holds
\* start = 24 and end = the stack pointer global's value when the module
\* exports it, else 1024, with start < end; the bridge never rewrites the
\* descriptor afterwards.
C30_Step ==
  /\ Initialises =>
       /\ DATA_ADDR = 16
       /\ descriptor'[1] = 24
       /\ descriptor'[2] =
            (IF "__stack_pointer" \in DOMAIN tables'[exports']
             THEN last'.x.n ELSE 1024)
       /\ descriptor'[1] < descriptor'[2]
  /\ exports # 0 => descriptor' = descriptor

Without_(raw, names) == [name \in DOMAIN raw \ names |-> raw[name]]

ControlNames ==
  { "asyncify_get_state", "asyncify_start_unwind", "asyncify_stop_unwind",
    "asyncify_start_rewind", "asyncify_stop_rewind" }

Loadables ==
  [ zeroperl |-> [raw |-> RawExports, env |-> FALSE],
    envmemory |-> [raw |-> Without_(RawExports, { "memory" }), env |-> TRUE],
    nomemory |-> [raw |-> Without_(RawExports, { "memory" }), env |-> FALSE],
    nocontrols |-> [raw |-> Without_(RawExports, ControlNames), env |-> FALSE] ]

\* the modules the claim says are rejected
Deficient == { "nomemory", "nocontrols" }

\* what getState() throws: Thrown("") when it throws nothing and returns the
\* guest's state
getState(exp, tbl) ==
  IF exp = 0 THEN Thrown(ExportsNotInitialized)
  ELSE IF ~HasControls(tbl) THEN Thrown(NotAFunction)
  ELSE Thrown("")

\* init throws: no field of the bridge is assigned
initThrows(mod) ==
  /\ last' = Last("init", mod, 0, "threw", Thrown(MemoryNotFound), Undef)
  /\ log' = << >>
  /\ fin' = NoCall
  /\ UNCHANGED << unwrappedExports, exports, descriptor, value, WRAPPED_EXPORTS,
                  wrappers, tables, nextObj, state, data, promises, calls, ncalls >>
  /\ UNCHANGED hostvars

\* instantiate() of any of the modules
Load ==
  /\ exports = 0
  /\ last.op = "new"
  /\ \E mod \in DOMAIN Loadables, sp \in StackTops :
       IF MemoryFound(Loadables[mod].raw, Loadables[mod].env)
       THEN initWith(mod, Loadables[mod].raw, Loadables[mod].env, sp)
       ELSE initThrows(mod)

\* WebAssembly.instantiate runs the module's start function before init is
\* called; the start function calls the wrapper of import `name`, whose first
\* statement is getState()
StartCallsImport ==
  /\ exports = 0
  /\ last.op = "new"
  /\ \E name \in { n \in DOMAIN ImportDefs : ImportIsWrapped(n) } :
       /\ last' = Last("start", name, 0, "threw", getState(exports, << >>), Undef)
       /\ log' = << ImportEv(name, state, FALSE, TRUE, "", Undef) >>
  /\ fin' = NoCall
  /\ UNCHANGED << unwrappedExports, exports, descriptor, value, WRAPPED_EXPORTS,
                  wrappers, tables, nextObj, state, data, promises, calls, ncalls >>
  /\ UNCHANGED hostvars

\* the host calls a wrapped export of a module without the control exports:
\* the wrapper's assertNoneState() calls getState(), which throws before the
\* guest function is invoked
CallWithoutControls ==
  /\ exports # 0
  /\ ncalls < MaxCalls
  /\ HostExports \in DOMAIN tables
  /\ ~HasControls(HostTable)
  /\ \E name \in HostCallNames, arg \in Vals :
       /\ HostTable[name] \in DOMAIN wrappers
       /\ EndSegment(World,
             Append(calls,
               [NoCall EXCEPT !.name = name, !.f = wrappers[HostTable[name]],
                              !.arg = arg, !.st = "rejected",
                              !.err = getState(exports, HostTable).k]),
             Len(calls) + 1)
       /\ last' = Last("call", name, HostExports, "rejected", Undef, Undef)
  /\ UnchangedHeap

NextLoad ==
  \/ Load
  \/ StartCallsImport
  \/ CallWithoutControls
  \/ \E name \in HostCallNames, arg \in Vals :
        calls = << >> /\ CallWrapped(name, arg)
  \/ \E name \in HostCallNames : CallDirect(name, 1)
  \/ \E c \in 1..Len(calls), x \in Vals : Resume(c, x)
  \/ \E c \in 1..Len(calls) : ResumeRejected(c)

SpecLoad == Init /\ [][NextLoad]_vars

\* C31: a module with no memory (neither exported nor in imports.env) or
\* lacking the asyncify control exports is rejected with an error at init,
\* before any wrapped export can be called; a wrapped call made before init
\* throws 'Exports not initialized'.
C31_Step ==
  /\ (last'.op = "init" /\ last'.name \in Deficient) =>
        /\ last'.outcome = "threw"
        /\ exports' = 0
  /\ last'.op = "start" => last'.ret = Thrown(ExportsNotInitialized)
  /\ last'.op = "call" => HasControls(tables'[exports'])

C31_RejectedAtInit == [][C31_Step]_vars

\* the part that holds: the module without a memory is rejected by init and
\* leaves no export table, the one given a memory through imports.env is
\* accepted, and a wrapper called before init throws
C31_MemoryStep ==
  /\ (last'.op = "init" /\ last'.name = "nomemory") =>
        /\ last'.outcome = "threw"
        /\ last'.ret = Thrown(MemoryNotFound)
        /\ exports' = 0
        /\ UNCHANGED << tables, wrappers, descriptor >>
  /\ (last'.op = "init" /\ last'.name = "envmemory") => exports' # 0
  /\ last'.op = "start" =>
        /\ last'.ret = Thrown(ExportsNotInitialized)
        /\ \A i \in DOMAIN log' : ~log'[i].under

C31_MemoryRequired == [][C31_MemoryStep]_vars

\* the module without the control exports was loaded and a wrapped export
\* of it was called
C31_LoadedWithoutControls ==
  /\ exports # 0
  /\ ~HasControls(tables[exports])
  /\ fin.st = "rejected"
  /\ fin.err = NotAFunction

\* ------------------------------------------------ C32: the arguments of a dispatch
\* The guest calls call_host_function with an argv of up to MaxArgs handles,
\* each null or a value it has just made.
MaxArgs == 2

ArgShapes == UNION { [1..n -> BOOLEAN] : n \in 0..MaxArgs }

\* the values among the first i entries of shape s
RECURSIVE ValuesUpTo(_, _)
ValuesUpTo(s, i) ==
  IF i = 0 THEN 0 ELSE ValuesUpTo(s, i - 1) + (IF s[i] THEN 1 ELSE 0)

\* the handle array of shape s over a heap of size base: a fresh handle for
\* every value, 0 for every null entry
ArgvOf(s, base) ==
  [i \in 1..Len(s) |-> IF s[i] THEN base + ValuesUpTo(s, i) ELSE 0]

RECURSIVE WithValues(_, _)
WithValues(h, k) ==
  IF k = 0 THEN h
  ELSE WithValues([h EXCEPT !.heap = Append(@, GV(T_INT, 2, "", << >>, << >>))],
                  k - 1)

\* the 32-bit handles the argument loop reads that are not 0, in argv order
NonNull(argv) == SelectSeq(argv, LAMBDA v : v # 0)

DispatchArgs ==
  /\ ~isDisposed
  /\ \E funcId \in 1..MaxFuncs, s \in ArgShapes :
       /\ funcId \in DOMAIN hostFunctions
       /\ Len(proxies) + Len(s) <= MaxProxies
       /\ Len(heap) + Len(s) <= MaxHeap
       /\ \E argv \in { ArgvOf(s, Len(heap)) } :
            Step("dispatch", funcId, "handleHostCall", isDisposed, argv,
                 handleHostCall(WithValues(Host, Len(NonNull(argv))), funcId, argv))

NextArgs ==
  \/ Register
  \/ DispatchArgs

SpecArgs == InitInstance /\ [][NextArgs]_allvars

\* the proxies a step created, oldest first
MadeBy(before, after) ==
  [i \in 1..(Len(after) - Len(before)) |-> after[Len(before) + i]]

\* C32: a dispatch calls the callback with exactly argc PerlValue proxies,
\* the i-th wrapping the i-th handle of argv, in argv order.
C32_Step ==
  hlast'.op = "dispatch" =>
    \E made \in { MadeBy(proxies, proxies') } :
      /\ Len(made) = Len(hlast'.arg)
      /\ \A i \in 1..Len(made) :
           /\ made[i].cls = "PerlValue"
           /\ made[i].ptr = hlast'.arg[i]

C32_ArgcProxies == [][C32_Step]_allvars

\* what holds: the callback is called with one PerlValue for every handle of
\* argv that is not 0, in argv order
C32_NonNullStep ==
  hlast'.op = "dispatch" =>
    \E made \in { MadeBy(proxies, proxies') } :
      /\ Len(made) = Len(NonNull(hlast'.arg))
      /\ \A i \in 1..Len(made) :
           /\ made[i].cls = "PerlValue"
           /\ made[i].ptr = NonNull(hlast'.arg)[i]

C32_NonNullWrapped == [][C32_NonNullStep]_allvars

\* a dispatch whose argv starts with a null handle: the callback's first
\* argument is the second handle
C32_Shifted ==
  /\ hlast.op = "dispatch"
  /\ Len(hlast.arg) = 2
  /\ hlast.arg[1] = 0
  /\ hlast.arg[2] # 0
  /\ Len(proxies) >= 1
  /\ proxies[Len(proxies)].ptr = hlast.arg[2]

\* ------------------------------------------------ C33: ownership of wrappers
\* the operations of the marshaling layer that create wrappers of their own
MarshalOps == { "convert", "store", "createArray", "projectArray", "project" }

\* the proxy the last operation handed to its caller, 0 when none
Returned(l) ==
  IF ~l.threw /\ l.ret.k \in { "PerlValue", "PerlArray", "PerlHash" }
  THEN l.ret.n ELSE 0

\* C33: every wrapper an operation of the marshaling layer creates for itself
\* is disposed exactly once before the operation returns or throws, and no
\* proxy the caller supplied, or that is returned to the caller, is disposed
\* by the layer.
C33_Step ==
  hlast'.op \in MarshalOps =>
    /\ \A q \in DOMAIN proxies' :
         (q > Len(proxies) /\ q # Returned(hlast')) =>
            /\ proxies'[q].disposed
            /\ proxies'[q].frees = 1
    /\ \A q \in DOMAIN proxies : proxies'[q] = proxies[q]
    /\ Returned(hlast') # 0 => ~proxies'[Returned(hlast')].disposed

C33_OwnershipDiscipline == [][C33_Step]_allvars

\* the same for the operations that return without throwing
C33_ReturnStep == ~hlast'.threw => C33_Step

C33_DisciplineOnReturn == [][C33_ReturnStep]_allvars

\* a conversion has thrown and left a wrapper of its own undisposed
C33_LeakOnThrow ==
  /\ hlast.op = "convert"
  /\ hlast.threw
  /\ \E q \in DOMAIN proxies : q > 3 /\ ~proxies[q].disposed /\ proxies[q].frees = 0

\* ------------------------------------------------ C34: use after free
\* async toInt() up to its first await:
\*   this.checkDisposed(); const outPtr = await this.exports.malloc(4);
toIntEnter(h, p) ==
  IF ~checkDisposed(h, p) THEN Throws(h, DisposedMessage(h, p))
  ELSE Returns(Called(h, "malloc", 0), JUndefined)

\* ... and from it: zeroperl_to_int(this.ptr, outPtr), then free(outPtr);
\* the flag is not read again
toIntResume(h, p) ==
  Bind(h.proxies[p].ptr, LAMBDA ptr :
    Returns(Called(Called(h, "zeroperl_to_int", ptr), "free", 0),
            JNum(MathFloor(NumberForm(h.heap[ptr])))))

\* the user calls toInt() of a PerlValue of the asynchronous API
ToIntAsync ==
  /\ api = "async"
  /\ runs = << >>
  /\ \E p \in DOMAIN proxies :
       /\ proxies[p].cls = "PerlValue"
       /\ \E r \in { toIntEnter(Host, p) } :
            /\ Update(r, HLast("method", p, "toInt", proxies[p].disposed, 0, r))
            /\ runs' = IF r.threw THEN runs ELSE << [op |-> "toInt", p |-> p] >>

\* ... and a toInt() that awaits malloc is resumed
ToIntAsyncResume ==
  /\ api = "async"
  /\ runs # << >>
  /\ \E p \in { runs[1].p } :
       \E r \in { toIntResume(Host, p) } :
         /\ Update(r, HLast("settle", p, "toInt", proxies[p].disposed, 0, r))
         /\ runs' = << >>

InitUse == Created /\ api = "async"

NextUse ==
  \/ Create
  \/ ToIntAsync
  \/ ToIntAsyncResume
  \/ DisposeAsync
  \/ DisposeAsyncResume

SpecUse == InitUse /\ [][NextUse]_allvars

FreeExports == { FreeExport(cls) : cls \in { "PerlValue", "PerlArray", "PerlHash" } }

\* the handles whose free export has been invoked
Freed == { proxies[p].ptr : p \in { q \in DOMAIN proxies : proxies[q].frees > 0 } }

\* C34: in every interleaving of proxy operations, no guest export is invoked
\* with a proxy's handle after the free export for that handle was invoked
\* (a second invocation of the free export itself is C12's subject).
C34_Step ==
  \A i \in DOMAIN xlog' :
    (xlog'[i].name \notin FreeExports) => xlog'[i].a \notin Freed

C34_NoUseAfterFree == [][C34_Step]_allvars

\* a toInt() resumed after dispose() has called zeroperl_to_int with the
\* freed handle
C34_UsedAfterFree ==
  /\ hlast.op = "settle"
  /\ hlast.m = "toInt"
  /\ proxies[hlast.p].frees > 0
  /\ \E i \in DOMAIN xlog :
       xlog[i] = [name |-> "zeroperl_to_int", a |-> proxies[hlast.p].ptr]

\* ------------------------------------------------ C35: the scratch memory of call()
\* how often the last step called export `name` on a scratch buffer
Scratch(lg, name) == Cardinality(CallsOf(lg, name, 0))

\* C35 for a call() that reached its await: when it settles (with a result,
\* with the empty result or with an exception) the name buffer and, when
\* there were arguments, the argv buffer are freed once each
C35_SettleStep ==
  (hlast'.op = "settle" /\ hlast'.arg.run.op = "call") =>
     Scratch(xlog', "free") = 1 + (IF hlast'.arg.run.argv THEN 1 ELSE 0)

C35_FreedAfterAwait == [][C35_SettleStep]_allvars

\* C35: call() frees the name buffer and the argv buffer it allocated exactly
\* once each on every exit path, also when it throws because an argument is
\* undefined or an already-disposed proxy.
C35_Step ==
  /\ C35_SettleStep
  /\ (hlast'.op = "enter" /\ hlast'.m = "call" /\ hlast'.threw) =>
        Scratch(xlog', "free") = Scratch(xlog', "malloc")

C35_ScratchFreed == [][C35_Step]_allvars

\* call('f', [v]) with a disposed v has thrown with both buffers allocated
\* and none freed
C35_ScratchLeaked ==
  /\ hlast.op = "enter"
  /\ hlast.m = "call"
  /\ hlast.threw
  /\ hlast.msg = "PerlValue has been disposed"
  /\ Scratch(xlog, "malloc") = 2
  /\ Scratch(xlog, "free") = 0

\* ------------------------------------------------ C36: the owners of result handles
\* the proxies a value returned to the caller holds
HandedOut(ret) ==
  CASE ret.k = "PerlValue" -> { ret.n }
    [] ret.k = "array" -> { ret.xs[i].n : i \in DOMAIN ret.xs }
    [] OTHER -> { }

\* handle g, returned by the guest in the step, has one owner: a proxy
\* handed to the caller, or a proxy disposed exactly once
Owned(g, before, after, ret) ==
  \E q \in (Len(before) + 1)..Len(after) :
    /\ after[q].ptr = g
    /\ \/ q \in HandedOut(ret) /\ ~after[q].disposed /\ after[q].frees = 0
       \/ q \notin HandedOut(ret) /\ after[q].disposed /\ after[q].frees = 1

\* C36: when call() has completed, in any context, every non-null result
\* handle the guest returned is owned by a proxy handed to the caller or has
\* been disposed exactly once.
C36_Step ==
  ExtractsBlock(hlast') =>
    \A g \in (Len(heap) + 1)..Len(heap') :
      Owned(g, proxies, proxies', hlast'.ret)

C36_ResultsOwned == [][C36_Step]_allvars

\* the same for the contexts 'list' and 'void'
C36_ListVoidStep ==
  \/ ExtractsBlock(hlast') /\ hlast'.arg.run.context = "scalar"
  \/ C36_Step

C36_ResultsOwnedListVoid == [][C36_ListVoidStep]_allvars

\* a call in scalar context returned the first of two values; the second
\* has a proxy the caller never sees, not disposed
C36_Orphan ==
  /\ ExtractsBlock(hlast)
  /\ hlast.arg.run.context = "scalar"
  /\ hlast.arg.out.results = << TRUE, TRUE >>
  /\ hlast.ret.k = "PerlValue"
  /\ \E q \in DOMAIN proxies :
       /\ q > hlast.ret.n
       /\ ~proxies[q].disposed
       /\ proxies[q].frees = 0

\* ------------------------------------------------ C37: one teardown
TeardownExports == { "zeroperl_free_interpreter", "zeroperl_shutdown" }

\* async dispose() / shutdown() up to its await:
\*   if (this.isDisposed) return; await this.exports.<name>();
teardownEnter(h, name) ==
  IF h.isDisposed THEN Started(h, NoRun)
  ELSE Started(Called(h, name, 0), Run("end", name, FALSE, FALSE, << >>))

\* ... and from it:  this.isDisposed = true; this.hostFunctions.clear()
teardownResume(h) ==
  Returns([h EXCEPT !.isDisposed = TRUE, !.hostFunctions = << >>], JUndefined)

\* the user calls dispose() or shutdown() of the asynchronous API
InstanceDisposeAsync ==
  /\ api = "async"
  /\ Len(runs) < MaxCalls
  /\ \E name \in TeardownExports :
       \E r \in { teardownEnter(Host, name) } :
         /\ Update(r, HLast("end", 0, name, isDisposed, 0, r))
         /\ runs' = IF r.run = NoRun THEN runs ELSE Append(runs, r.run)

\* ... and a dispose() or shutdown() that awaits its export is resumed
InstanceDisposeAsyncResume ==
  /\ api = "async"
  /\ runs # << >>
  /\ \E r \in { teardownResume(Host) } :
       /\ Update(r, HLast("ended", 0, runs[1].context, isDisposed, 0, r))
       /\ runs' = Tail(runs)

InitEnd == Created /\ api \in { "sync", "async" }

NextEnd ==
  \/ Register
  \/ InstanceDispose
  \/ InstanceDisposeAsync
  \/ InstanceDisposeAsyncResume

SpecEnd == InitEnd /\ [][NextEnd]_allvars

\* the teardown exports the last step invoked
Teardowns(lg) == { i \in DOMAIN lg : lg[i].name \in TeardownExports }

\* a teardown export has been invoked: the flag is set, or a dispose() or
\* shutdown() is at its await
TornDown == isDisposed \/ runs # << >>

\* C37: over any sequence or overlap of dispose() and shutdown() calls,
\* exactly one teardown export, that of the first call, is invoked, exactly
\* once; every later dispose() or shutdown() invokes nothing.
C37_Step ==
  /\ (hlast'.op = "end" /\ ~TornDown) => xlog' = << [name |-> hlast'.m, a |-> 0] >>
  /\ TornDown => Teardowns(xlog') = { }

C37_OneTeardown == [][C37_Step]_allvars

\* the same of the synchronous API
C37_SyncStep == api = "sync" => C37_Step

C37_OneTeardownSync == [][C37_SyncStep]_allvars

\* shutdown() was called while dispose() was at its await and has invoked
\* zeroperl_shutdown too
C37_TwoTeardowns ==
  /\ Len(runs) = 2
  /\ runs[1].context = "zeroperl_free_interpreter"
  /\ runs[2].context = "zeroperl_shutdown"
  /\ xlog = << [name |-> "zeroperl_shutdown", a |-> 0] >>

\* ------------------------------------------------ C38: readCString
\* Guest memory is MemSize bytes, addresses 0..MemSize-1; a byte is 0 or the
\* code of a letter.  The loop of readCString is followed one test at a time.
MemSize == 3
MaxScan == MemSize + 3

Bytes == { 0, 97, 98 }
Views == [0..(MemSize - 1) -> Bytes]

\* view[i] of a Uint8Array: undefined, never an exception, outside the array
Undefined == 0 - 1
At(view, i) == IF i \in DOMAIN view THEN view[i] ELSE Undefined

\* textDecoder.decode(view.subarray(from, to))
Chr(b) == CASE b = 97 -> "a" [] b = 98 -> "b" [] OTHER -> "?"

RECURSIVE Decode(_, _, _)
Decode(view, from, to) ==
  IF from >= to \/ from \notin DOMAIN view THEN ""
  ELSE Chr(view[from]) \o Decode(view, from + 1, to)

\* the loop test:  view[ptr + len] !== 0
KeepsScanning(view, i) == At(view, i) # 0

Reading(op, view, ptr, len, ret) ==
  [op |-> op, m |-> "readCString", arg |-> view, p |-> ptr, len |-> len,
   ret |-> ret]

ReadCommit(l) ==
  /\ hlast' = l
  /\ UNCHANGED << api, isDisposed, hostFunctions, nextFuncId, proxies, heap,
                  perlVars, hostError, xlog, runs, lastError, vars >>

InitRead ==
  /\ unwrappedExports = AsyncifyConstructor(SYNC_EXPORTS)
  /\ BridgeIdle
  /\ api = "sync"
  /\ isDisposed = FALSE
  /\ hostFunctions = << >>
  /\ nextFuncId = 1
  /\ proxies = << >>
  /\ heap = << >>
  /\ perlVars = [ks |-> << >>, xs |-> << >>]
  /\ hostError = ""
  /\ xlog = << >>
  /\ runs = << >>
  /\ lastError = ""
  /\ \E view \in Views, ptr \in 0..MemSize :
       hlast = Reading("input", view, ptr, 0, "")

\* readCString(ptr):  if (ptr === 0) return ""; ... let len = 0
ReadEnter ==
  /\ hlast.op = "input"
  /\ ReadCommit(IF hlast.p = 0 THEN [hlast EXCEPT !.op = "returned"]
                ELSE [hlast EXCEPT !.op = "scanning"])

\* while (view[ptr + len] !== 0) len++
ReadScan ==
  /\ hlast.op = "scanning"
  /\ hlast.len < MaxScan
  /\ KeepsScanning(hlast.arg, hlast.p + hlast.len)
  /\ ReadCommit([hlast EXCEPT !.len = @ + 1])

\* return textDecoder.decode(view.subarray(ptr, ptr + len))
ReadReturn ==
  /\ hlast.op = "scanning"
  /\ ~KeepsScanning(hlast.arg, hlast.p + hlast.len)
  /\ ReadCommit([hlast EXCEPT !.op = "returned",
                              !.ret = Decode(hlast.arg, hlast.p, hlast.p + hlast.len)])

NextRead ==
  \/ ReadEnter
  \/ ReadScan
  \/ ReadReturn

SpecRead == InitRead /\ [][NextRead]_allvars

\* there is a NUL byte between address a and the end of the memory
NulFrom(view, a) == \E i \in DOMAIN view : i >= a /\ view[i] = 0

\* the bytes from a up to the first NUL
RECURSIVE UpToNul(_, _)
UpToNul(view, a) ==
  IF a \notin DOMAIN view \/ view[a] = 0 THEN ""
  ELSE Chr(view[a]) \o UpToNul(view, a + 1)

\* C38: readCString(addr) terminates for every address: it returns the bytes
\* up to the first NUL, '' for address 0, and when no NUL byte lies between
\* addr and the end of guest memory it fails with a bounds error instead of
\* scanning on: every byte the loop has passed is a byte of the memory.
C38_Terminates ==
  /\ hlast.op = "returned" =>
        hlast.ret = (IF hlast.p = 0 THEN "" ELSE UpToNul(hlast.arg, hlast.p))
  /\ (hlast.op = "scanning" /\ hlast.len > 0) =>
        hlast.p + hlast.len - 1 < MemSize

\* what holds: address 0 gives '', and when a NUL byte lies at or after addr
\* the scan stays inside the memory and returns the bytes up to it
C38_ReturnsUpToNul ==
  /\ hlast.op = "returned" =>
        hlast.ret = (IF hlast.p = 0 THEN "" ELSE UpToNul(hlast.arg, hlast.p))
  /\ (hlast.op = "scanning" /\ NulFrom(hlast.arg, hlast.p)) =>
        hlast.p + hlast.len < MemSize

\* the scan has left the memory behind and is still going
C38_PastTheEnd ==
  /\ hlast.op = "scanning"
  /\ ~NulFrom(hlast.arg, hlast.p)
  /\ hlast.p + hlast.len > MemSize + 1

\* ------------------------------------------------ C39: WASIAbi.writeStringArray
\* A JavaScript string is a sequence of characters; the memory is AbiMem
\* bytes, addresses 0..AbiMem-1.  Every byte written is logged in order.
MaxStrings == 2
AbiMem == 8 * MaxStrings + 4

\* TextEncoder.encode of one character: UTF-8
Utf8(ch) ==
  CASE ch = "a" -> << 97 >>
    [] ch = "e'" -> << 195, 169 >>
    [] ch = "NUL" -> << 0 >>

RECURSIVE Encode(_)
Encode(text) ==
  IF text = << >> THEN << >> ELSE Utf8(Head(text)) \o Encode(Tail(text))

\* a byteLength that counts the characters
byteLength_Units(text) == Len(text)

\* byteLength(value):  this.encoder.encode(value).length
byteLength(text) == Len(Encode(text))

\* stringArraySize(strings)
RECURSIVE BufferSize(_)
BufferSize(strings) ==
  IF strings = << >> THEN 0
  ELSE byteLength(Head(strings)) + 1 + BufferSize(Tail(strings))

stringArraySize(strings) ==
  [pointerArraySize |-> Len(strings) * 4,
   bufferSize |-> BufferSize(strings),
   totalSize |-> Len(strings) * 4 + BufferSize(strings)]

\* the memory and the bytes written to it so far
Written(mem, wlog, threw) == [mem |-> mem, log |-> wlog, threw |-> threw]

RECURSIVE Store(_, _, _)
Store(w, at, bytes) ==
  IF bytes = << >> THEN w
  ELSE Store(Written([w.mem EXCEPT ![at] = Head(bytes)],
                     Append(w.log, << at, Head(bytes) >>), FALSE),
             at + 1, Tail(bytes))

\* the four bytes of v as a u32 (v modulo 2^32), little-endian
LittleEndian(v) ==
  << v % 256, (v \div 256) % 256, (v \div 65536) % 256, (v \div 16777216) % 256 >>

\* memory.setUint32(offset, v, true): a RangeError outside the memory
setUint32(w, offset, v) ==
  IF offset + 4 > AbiMem THEN Written(w.mem, w.log, TRUE)
  ELSE Store(w, offset, LittleEndian(v))

\* writeString(memory, value, offset): the Uint8Array constructor throws a
\* RangeError when the bytes do not fit
writeString(w, text, offset) ==
  IF offset + Len(Encode(text)) > AbiMem
  THEN [w |-> Written(w.mem, w.log, TRUE), n |-> 0]
  ELSE [w |-> Store(w, offset, Encode(text)), n |-> Len(Encode(text))]

\* the loop of writeStringArray from the i-th string on
RECURSIVE WriteLoop(_, _, _, _, _)
WriteLoop(w, strings, i, currentArrayOffset, currentBufferOffset) ==
  IF i > Len(strings) THEN [w |-> w, end |-> currentBufferOffset]
  ELSE Bind(setUint32(w, currentArrayOffset, currentBufferOffset), LAMBDA p :
       IF p.threw THEN [w |-> p, end |-> currentBufferOffset]
       ELSE Bind(writeString(p, Append(strings[i], "NUL"), currentBufferOffset),
                 LAMBDA s :
            IF s.w.threw THEN [w |-> s.w, end |-> currentBufferOffset]
            ELSE WriteLoop(s.w, strings, i + 1, currentArrayOffset + 4,
                           currentBufferOffset + s.n)))

\* writeStringArray(memory, strings, arrayOffset, bufferOffset)
WASIAbi_writeStringArray(w, strings, arrayOffset, bufferOffset) ==
  Bind(WriteLoop(w, strings, 1, arrayOffset, bufferOffset), LAMBDA l :
    [w |-> l.w, ret |-> l.end - bufferOffset])

JsStrings == { << >>, << "a" >>, << "e'" >>, << "a", "e'" >> }
StringArrays == UNION { [1..n -> JsStrings] : n \in 0..MaxStrings }
ArrayOffsets == { 0, 4, AbiMem - 4 }
BufferOffsets == { 0, 4 * MaxStrings, AbiMem - 5 }

Writing(op, strings, arrayOffset, bufferOffset, w, ret, size) ==
  [op |-> op, m |-> "writeStringArray", arg |-> strings, p |-> arrayOffset,
   buf |-> bufferOffset, w |-> w, ret |-> ret, size |-> size]

ZeroMemory == Written([a \in 0..(AbiMem - 1) |-> 0], << >>, FALSE)

InitWrite ==
  /\ unwrappedExports = AsyncifyConstructor(SYNC_EXPORTS)
  /\ BridgeIdle
  /\ api = "sync"
  /\ isDisposed = FALSE
  /\ hostFunctions = << >>
  /\ nextFuncId = 1
  /\ proxies = << >>
  /\ heap = << >>
  /\ perlVars = [ks |-> << >>, xs |-> << >>]
  /\ hostError = ""
  /\ xlog = << >>
  /\ runs = << >>
  /\ lastError = ""
  /\ \E strings \in StringArrays, ao \in ArrayOffsets, bo \in BufferOffsets :
       hlast = Writing("input", strings, ao, bo, ZeroMemory, 0,
                       stringArraySize(<< >>))

\* the caller sizes the strings and writes them
WriteArray ==
  /\ hlast.op = "input"
  /\ \E r \in { WASIAbi_writeStringArray(hlast.w, hlast.arg, hlast.p, hlast.buf) } :
       ReadCommit(Writing(IF r.w.threw THEN "threw" ELSE "written", hlast.arg,
                          hlast.p, hlast.buf, r.w, r.ret,
                          stringArraySize(hlast.arg)))

NextWrite ==
  \/ WriteArray

SpecWrite == InitWrite /\ [][NextWrite]_allvars

\* sum over j < i of (UTF-8 length of strings[j] + 1)
RECURSIVE Before(_, _)
Before(strings, i) ==
  IF i <= 1 THEN 0
  ELSE Before(strings, i - 1) + Len(Encode(strings[i - 1])) + 1

\* the address the i-th pointer must hold
PointerOf(strings, bufferOffset, i) == bufferOffset + Before(strings, i)

\* the writes of bytes at consecutive addresses from `at`
BytesAt(at, bytes) == [k \in 1..Len(bytes) |-> << at + k - 1, bytes[k] >>]

\* what must have been written, in order, for the strings from the i-th on
RECURSIVE Expected(_, _, _, _)
Expected(strings, arrayOffset, bufferOffset, i) ==
  IF i > Len(strings) THEN << >>
  ELSE BytesAt(arrayOffset + 4 * (i - 1),
            LittleEndian(PointerOf(strings, bufferOffset, i)))
       \o BytesAt(PointerOf(strings, bufferOffset, i), Encode(strings[i]) \o << 0 >>)
       \o Expected(strings, arrayOffset, bufferOffset, i + 1)

\* the pointer array and the string buffer do not overlap
Disjoint(l) ==
  \/ l.p + l.size.pointerArraySize <= l.buf
  \/ l.buf + l.size.bufferSize <= l.p

\* C39: writeStringArray(memory, strings, arrayOffset, bufferOffset) writes,
\* for each i < N, the little-endian pointer bufferOffset + sum over j < i of
\* (byteLength(strings[j]) + 1) at arrayOffset + 4*i, stores each string
\* NUL-terminated at that pointer, and returns
\* stringArraySize(strings).bufferSize; stringArraySize gives
\* pointerArraySize = 4*N and totalSize = pointerArraySize + bufferSize.
C39_WritesStringArray ==
  hlast.op = "written" =>
    /\ hlast.w.log = Expected(hlast.arg, hlast.p, hlast.buf, 1)
    /\ hlast.ret = hlast.size.bufferSize
    /\ hlast.ret = Before(hlast.arg, Len(hlast.arg) + 1)
    /\ hlast.size.pointerArraySize = 4 * Len(hlast.arg)
    /\ hlast.size.totalSize = hlast.size.pointerArraySize + hlast.size.bufferSize
    /\ Disjoint(hlast) =>
         \A i \in 1..Len(hlast.arg) :
           /\ \A k \in 1..4 :
                hlast.w.mem[hlast.p + 4 * (i - 1) + k - 1]
                  = LittleEndian(PointerOf(hlast.arg, hlast.buf, i))[k]
           /\ \A k \in 1..Len(Encode(hlast.arg[i])) :
                hlast.w.mem[PointerOf(hlast.arg, hlast.buf, i) + k - 1]
                  = Encode(hlast.arg[i])[k]
           /\ hlast.w.mem[PointerOf(hlast.arg, hlast.buf, i)
                          + Len(Encode(hlast.arg[i]))] = 0

\* two strings, one with a two-byte character, were written behind their
\* pointer array
C39_Witness ==
  /\ hlast.op = "written"
  /\ hlast.arg = << << "a", "e'" >>, << "e'" >> >>
  /\ hlast.p = 0
  /\ hlast.buf = 4 * MaxStrings
  /\ Disjoint(hlast)
  /\ hlast.ret = 7
  /\ hlast.w.mem[4] = 4 * MaxStrings + 4

=============================================================================
